---- MODULE Spec2Model ----
(***************************************************************************)
(* Model of the news aggregation server (server/index.js, the later copy   *)
(* of the file, lines 563-1224): the per-source cache, the /api/news       *)
(* handler with its concurrently running source tasks, and the retention   *)
(* window filter and sort applied to every source's items.                 *)
(*                                                                         *)
(* Time is in milliseconds.  Instant 0 is a midnight UTC; America/Sao_Paulo*)
(* is three hours behind UTC the whole year (no DST since 2019).           *)
(***************************************************************************)
EXTENDS Integers, Sequences, FiniteSets, TLC

\* ------------------------------------------------------------------ bounds
NumSources == 2      \* how many entries of the SOURCES registry are modelled
MaxRequests == 2     \* /api/news requests issued over one behaviour
MaxItems == 1        \* longest listing an adapter returns
MaxTokens == 1       \* most keys listed in the sources query parameter
MaxTicks == 2        \* clock advances over one behaviour
MaxList == 3         \* longest list handed to filterAndSort on its own
MaxRaw == 5          \* longest raw sources parameter, in lexemes

\* ------------------------------------------------------------- time and tz
HourMs == 60 * 60 * 1000
DayMs == 24 * HourMs

\* utcOffset of DEFAULT_TZ = "America/Sao_Paulo", in ms (UTC-03:00).
DEFAULT_TZ == 0 - 3 * HourMs

CACHE_MS == 1000 * 60 * 60

\* JS null / undefined for a timestamp, and for the error field.
Null == 0 - 1
NullError == "<null>"

\* dayjs(iso).valueOf(): the ISO string ending in Z that toISOString() made
\* is parsed by new Date(iso), the instant it denotes.
DayjsValueOf(iso) == iso

\* dayjs.tz(iso, tz) for a string: the timezone plugin parses the string with
\* dayjs.utc(), whose parseDate hands a string ending in Z to new Date(), and
\* then takes that instant's UTC wall clock as wall clock of tz
\* (fixOffset: utcGuess = localTs - offset * 60000).
DayjsTzParse(iso) == iso - DEFAULT_TZ

\* now.startOf("day") of dayjs().tz(tz): midnight of the day of t in tz.
StartOfDay(t) == ((t + DEFAULT_TZ) \div DayMs) * DayMs - DEFAULT_TZ

\* startToday.endOf("day"): 23:59:59.999 of that day.
EndOfDay(s) == s + DayMs - 1

withinLastTwoDays(iso, t) ==
    IF iso = Null THEN FALSE
    ELSE LET startToday == StartOfDay(t)
             startYesterday == startToday - DayMs
             endToday == EndOfDay(startToday)
             d == DayjsTzParse(iso)
         IN  d >= startYesterday /\ d <= endToday

\* Variant: an undated item is always kept.
KeptUndated(it, t) ==
    /\ it.title # ""
    /\ it.url # ""
    /\ it.publishedAt = Null \/ withinLastTwoDays(it.publishedAt, t)

\* filter(...) of filterAndSort: title, url and publishedAt truthy and the
\* timestamp inside the window evaluated at instant t.
Kept(it, t) ==
    /\ it.title # ""
    /\ it.url # ""
    /\ it.publishedAt # Null
    /\ withinLastTwoDays(it.publishedAt, t)

\* Variant: the list is left in listing order.
InsertUnsorted(s, x) == Append(s, x)

\* Variant: x goes before the elements of its own age.
InsertSortedTiesFirst(s, x) ==
    LET n == Cardinality({i \in 1..Len(s) :
                 DayjsValueOf(s[i].publishedAt) > DayjsValueOf(x.publishedAt)})
    IN  SubSeq(s, 1, n) \o <<x>> \o SubSeq(s, n + 1, Len(s))

\* Array.prototype.sort with comparator (a, b) => b - a is stable: x goes
\* after every element that is not older than x.
InsertSorted(s, x) ==
    LET n == Cardinality({i \in 1..Len(s) :
                 DayjsValueOf(s[i].publishedAt) >= DayjsValueOf(x.publishedAt)})
    IN  SubSeq(s, 1, n) \o <<x>> \o SubSeq(s, n + 1, Len(s))

RECURSIVE SortDesc(_)
SortDesc(s) ==
    IF s = <<>> THEN <<>>
    ELSE InsertSorted(SortDesc(SubSeq(s, 1, Len(s) - 1)), s[Len(s)])

filterAndSort(items, t) ==
    SortDesc(SelectSeq(items, LAMBDA it : Kept(it, t)))

\* ---------------------------------------------------------------- registry
AllSources == <<
    [key |-> "un_news_pt", name |-> "UN News (PT)", color |-> "#1d4ed8"],
    [key |-> "mre_notas", name |-> "MRE - Notas a Imprensa", color |-> "#16a34a"],
    [key |-> "unep_es", name |-> "UNEP (ES) - Recursos", color |-> "#ef4444"],
    [key |-> "unfccc", name |-> "UNFCCC - News", color |-> "#0ea5e9"],
    [key |-> "relacoes_exteriores", name |-> "Relacoes Exteriores (Artigos)", color |-> "#9333ea"],
    [key |-> "mma", name |-> "MMA - Noticias", color |-> "#16a34a"],
    [key |-> "infobrics", name |-> "InfoBRICS - News", color |-> "#ef4444"],
    [key |-> "ibge", name |-> "IBGE - Agencia de Noticias", color |-> "#1f2937"],
    [key |-> "mdic", name |-> "MDIC - Noticias", color |-> "#1d4ed8"],
    [key |-> "govbr_meio_ambiente", name |-> "Gov.br - Meio Ambiente e Clima", color |-> "#0d9488"],
    [key |-> "eir", name |-> "E-IR Articles", color |-> "#dc2626"] >>

\* The registry, cut to the first NumSources entries.
SOURCES == SubSeq(AllSources, 1, NumSources)

Keys == {SOURCES[i].key : i \in 1..Len(SOURCES)}

\* ------------------------------------------------- what the network returns
\* The clock starts at 12:00 in Sao Paulo on day 3 (15:00 UTC).
StartClock == 3 * DayMs + 15 * HourMs

\* Timestamps an adapter may attach to an item: none, or 09:00 of the
\* starting day in Sao Paulo.
PubChoices == {Null, 3 * DayMs + 12 * HourMs}

Titles == <<"t1", "t2", "t3", "t4">>
Urls == <<"https://site/1", "https://site/2", "https://site/3", "https://site/4">>

\* An adapter's result: items in listing order; an adapter pushes an item
\* only when title and link are non-empty.
MkListing(f) ==
    [i \in 1..Len(f) |->
        [title |-> Titles[i], url |-> Urls[i], image |-> "img",
         publishedAt |-> f[i]]]

Listings ==
    {MkListing(f) : f \in UNION {[1..n -> PubChoices] : n \in 0..MaxItems}}

\* Errors a fetcher rejects with (safeFetch: abort on timeout, non-2xx).
FetchErrors == {"timeout", "HTTP 503"}

\* ------------------------------------------------------------------- state
VARIABLES
    now,      \* Date.now(), the server's clock (ms)
    ticks,    \* how many times the clock has advanced
    cache,    \* const cache = new Map(): key -> [data, at]
    reqs,     \* the /api/news requests: parameters, source tasks, response
    fsList,   \* filterAndSort on its own: the list a source task gave,
    fsNow,    \*   the instant of the call,
    fsDone,   \*   whether the call was made,
    fsItems,  \*   and the items of the SourceResult built from it
    selRaw,   \* source selection on its own: req.query.sources as typed,
    selDone,  \*   whether the handler ran,
    selOut,   \*   and the keys of payload.sources, in order
    pdIn,     \* parseDateTime on its own: what the text says,
    pdRaw,    \*   the text,
    pdOut,    \*   what parseDateTime(pdRaw) returned,
    pdOut2,   \*   what parseDateTime returned for that result,
    pnOut,    \*   and what parseNamedMonth(pdRaw) returned
    adPhase,  \* an adapter on its own: where its run is,
    adItems,  \*   its items array,
    adIdx,    \*   the item its for loop is at,
    adMeta,   \*   the last call of fetchArticleMeta: page and result,
    adOut,    \*   and the items of the SourceResult built from its list
    clMounted,  \* the client: whether App is mounted,
    clActive,   \*   the active tab,
    clLoading,  \*   the loading flag,
    clError,    \*   whether an error is shown,
    clData,     \*   the request whose response is shown (0: none),
    clFetches,  \*   the /api/news requests issued so far,
    clClicks,   \*   and how often Atualizar was clicked
    sfNow,      \* safeFetch on its own: the clock (ms),
    sfCalls     \*   and the calls of safeFetch

pipeVars == <<now, ticks, cache, reqs>>
fsVars == <<fsList, fsNow, fsDone, fsItems>>
selVars == <<selRaw, selDone, selOut>>
pdVars == <<pdIn, pdRaw, pdOut, pdOut2, pnOut>>
adVars == <<adPhase, adItems, adIdx, adMeta, adOut>>
clVars == <<clMounted, clActive, clLoading, clError, clData, clFetches, clClicks>>
sfVars == <<sfNow, sfCalls>>
auxVars == <<selVars, pdVars, adVars, clVars, sfVars>>
vars == <<pipeVars, fsVars, auxVars>>

ReqIds == 1..MaxRequests

\* cache.get(key) of a key the Map does not hold.
Undefined == [data |-> <<>>, at |-> Null]

CacheGet(c, key) == IF key \in DOMAIN c THEN c[key] ELSE Undefined

\* Variant: set merges the new data into the entry the key already has.
CacheSetMerge(c, key, entry) ==
    [k \in (DOMAIN c) \cup {key} |->
        IF k # key THEN c[k]
        ELSE IF key \in DOMAIN c
             THEN [data |-> c[key].data \o entry.data, at |-> c[key].at]
             ELSE entry]

\* Variant: set replaces the Map by one that holds the entry under every
\* key.
CacheSetEveryKey(c, key, entry) ==
    [k \in (DOMAIN c) \cup {key} |-> entry]

CacheSet(c, key, entry) ==
    [k \in (DOMAIN c) \cup {key} |-> IF k = key THEN entry ELSE c[k]]

\* A source task of a request: the promise getSourceData / getSourceDataForce
\* returned (st, value, reason) and the promise src.fetcher() returned, if
\* the call invoked it (fetch, fetchReason).
NoTask ==
    [st |-> "none", value |-> <<>>, reason |-> "",
     fetch |-> "none", fetchReason |-> ""]

NoResponse ==
    [status |-> 0, tz |-> "", generatedAt |-> Null, sources |-> <<>>,
     error |-> NullError]

IdleRequest ==
    [phase |-> "idle", sources |-> <<>>, force |-> "", selected |-> <<>>,
     tasks |-> [k \in Keys |-> NoTask], calledAt |-> Null,
     res |-> NoResponse]

\* Variant: an entry exactly one TTL old still counts as fresh.
CacheFreshInclusive(cached, t) ==
    cached # Undefined /\ t - cached.at <= CACHE_MS

\* line 1141: cached && Date.now() - cached.at < CACHE_MS
CacheFresh(cached, t) == cached # Undefined /\ t - cached.at < CACHE_MS

\* getSourceData up to its await: a fresh entry is returned at once,
\* otherwise src.fetcher() is invoked and the call suspends.
getSourceData(c, key, t) ==
    LET cached == CacheGet(c, key)
    IN  IF CacheFresh(cached, t)
        THEN [NoTask EXCEPT !.st = "fulfilled", !.value = cached.data]
        ELSE [NoTask EXCEPT !.st = "pending", !.fetch = "pending"]

\* Variant: the forced get consults the cache like the plain one.
getSourceDataForceCached(c, key, t) == getSourceData(c, key, t)

\* getSourceDataForce up to its await: src.fetcher() is always invoked.
getSourceDataForce(c, key, t) ==
    [NoTask EXCEPT !.st = "pending", !.fetch = "pending"]

\* Variant: the fetched data is returned but never stored.
ResumeGetNoStore(c, key, task, outcome, t) ==
    IF outcome.ok
    THEN [cache |-> c,
          task |-> [task EXCEPT !.st = "fulfilled", !.value = outcome.data]]
    ELSE [cache |-> c,
          task |-> [task EXCEPT !.st = "rejected", !.reason = outcome.reason]]

\* Variant: cache.set sits in a finally block, so a failed fetch stores an
\* empty entry.
ResumeGetStoreAlways(c, key, task, outcome, t) ==
    IF outcome.ok
    THEN [cache |-> CacheSet(c, key, [data |-> outcome.data, at |-> t]),
          task |-> [task EXCEPT !.st = "fulfilled", !.value = outcome.data]]
    ELSE [cache |-> CacheSet(c, key, [data |-> <<>>, at |-> t]),
          task |-> [task EXCEPT !.st = "rejected", !.reason = outcome.reason]]

\* Variant: a failed fetch is tried again inside the same call.
ResumeGetRetry(c, key, task, outcome, t) ==
    IF outcome.ok
    THEN [cache |-> CacheSet(c, key, [data |-> outcome.data, at |-> t]),
          task |-> [task EXCEPT !.st = "fulfilled", !.value = outcome.data]]
    ELSE [cache |-> c, task |-> [task EXCEPT !.fetch = "pending"]]

\* Variant: when the fetch fails, the data of the entry the key has is
\* returned instead.
ResumeGetStaleOnError(c, key, task, outcome, t) ==
    IF outcome.ok
    THEN [cache |-> CacheSet(c, key, [data |-> outcome.data, at |-> t]),
          task |-> [task EXCEPT !.st = "fulfilled", !.value = outcome.data]]
    ELSE IF key \in DOMAIN c
    THEN [cache |-> c,
          task |-> [task EXCEPT !.st = "fulfilled", !.value = c[key].data]]
    ELSE [cache |-> c,
          task |-> [task EXCEPT !.st = "rejected", !.reason = outcome.reason]]

\* The rest of getSourceData / getSourceDataForce once the fetcher settled:
\* on success cache.set(key, {data, at: Date.now()}) and return data; a
\* rejection of the fetcher is rethrown by the await, the Map is not touched.
\* Gives the new Map and the settled task.
ResumeGet(c, key, task, outcome, t) ==
    IF outcome.ok
    THEN [cache |-> CacheSet(c, key, [data |-> outcome.data, at |-> t]),
          task |-> [task EXCEPT !.st = "fulfilled", !.value = outcome.data]]
    ELSE [cache |-> c,
          task |-> [task EXCEPT !.st = "rejected", !.reason = outcome.reason]]

\* req.query.force / req.query.sources truthiness: a non-empty string.
Truthy(param) == param # ""

\* Variant: the listed keys are mapped to their sources one by one, in the
\* order of the list.
SelectedInListOrder(tokens) ==
    IF tokens = <<>> THEN SOURCES
    ELSE LET known == SelectSeq(tokens, LAMBDA x : x \in Keys)
         IN  [i \in 1..Len(known) |->
                 SOURCES[CHOOSE j \in 1..Len(SOURCES) : SOURCES[j].key = known[i]]]

\* Variant: a list that names no registered key selects the whole registry.
SelectedOrAll(tokens) ==
    LET named == SelectSeq(SOURCES,
                    LAMBDA s : \E i \in 1..Len(tokens) : tokens[i] = s.key)
    IN  IF named = <<>> THEN SOURCES ELSE named

\* only.includes(s.key), SOURCES.filter(...): the registry entries whose key
\* is listed, in registry order; the whole registry when sources is absent.
Selected(tokens) ==
    IF tokens = <<>> THEN SOURCES
    ELSE SelectSeq(SOURCES,
            LAMBDA s : \E i \in 1..Len(tokens) : tokens[i] = s.key)

SelectedKeys(rq) == {rq.selected[i].key : i \in 1..Len(rq.selected)}

\* Variant: await Promise.all(tasks), which rejects with the first rejection.
PromiseAll(rq) ==
    LET failed == {k \in SelectedKeys(rq) : rq.tasks[k].st = "rejected"}
    IN  [ready |-> \/ failed # {}
                   \/ \A k \in SelectedKeys(rq) : rq.tasks[k].st # "pending",
         threw |-> failed # {},
         reason |-> IF failed = {} THEN ""
                    ELSE rq.tasks[CHOOSE k \in failed : TRUE].reason]

\* Variant: await Promise.race(tasks), which resumes with the first task
\* that settles.
PromiseRace(rq) ==
    [ready |-> \/ SelectedKeys(rq) = {}
               \/ \E k \in SelectedKeys(rq) : rq.tasks[k].st # "pending",
     threw |-> FALSE,
     reason |-> ""]

\* await Promise.allSettled(tasks): resumes when no task is pending, and
\* never throws.
PromiseAllSettled(rq) ==
    [ready |-> \A k \in SelectedKeys(rq) : rq.tasks[k].st # "pending",
     threw |-> FALSE,
     reason |-> ""]

\* r.reason?.message || String(r.reason)
ErrorString(message) == IF message # "" THEN message ELSE "Error"

\* One element of payload.sources (lines 1180-1197).
SourceResult(s, task, t) ==
    LET list == IF task.st = "fulfilled" THEN task.value ELSE <<>>
        error == IF task.st = "rejected" THEN ErrorString(task.reason)
                 ELSE NullError
        sorted == filterAndSort(list, t)
    IN  [key |-> s.key, name |-> s.name, color |-> s.color,
         items |-> [i \in 1..Len(sorted) |->
                       [title |-> sorted[i].title, url |-> sorted[i].url,
                        image |-> sorted[i].image,
                        publishedAt |-> sorted[i].publishedAt]],
         error |-> error]

\* Variant: every element of payload.sources is built from settled[0].
RespondFirstSettled(rq, t) ==
    [status |-> 200, tz |-> "America/Sao_Paulo", generatedAt |-> t,
     sources |-> [i \in 1..Len(rq.selected) |->
         SourceResult(rq.selected[i], rq.tasks[rq.selected[1].key], t)],
     error |-> NullError]

\* The handler after its await: res.json(payload), or the catch's 500.
Respond(rq, t) ==
    LET a == PromiseAllSettled(rq)
    IN  IF a.threw
        THEN [NoResponse EXCEPT !.status = 500, !.error = a.reason]
        ELSE [status |-> 200, tz |-> "America/Sao_Paulo", generatedAt |-> t,
              sources |-> [i \in 1..Len(rq.selected) |->
                  SourceResult(rq.selected[i], rq.tasks[rq.selected[i].key], t)],
              error |-> NullError]

\* The handler resumes in the same turn of the event loop in which its last
\* task settled.
Continue(rq, t) ==
    IF rq.phase = "waiting" /\ PromiseAllSettled(rq).ready
    THEN [rq EXCEPT !.phase = "done", !.res = Respond(rq, t)]
    ELSE rq

\* Variant: filterAndSort filters and sorts the array it is given.
ArgFilteredInPlace(items, t) == filterAndSort(items, t)

\* The array handed to filterAndSort once the call returned: filter builds a
\* new array and sort orders that one, so the argument is as it was.
ArgAfterFilterAndSort(items, t) == items

\* The Map once the handler that resumes from rq at t has built its payload.
\* The value of a fulfilled task is the array its get returned, and that is
\* the array in the key's entry while the entry holds that data; the handler
\* hands it to filterAndSort.
CacheAfterRespond(c, rq, t) ==
    IF Continue(rq, t).phase # "done" THEN c
    ELSE [k \in DOMAIN c |->
             IF /\ k \in SelectedKeys(rq)
                /\ rq.tasks[k].st = "fulfilled"
                /\ c[k].data = rq.tasks[k].value
             THEN [c[k] EXCEPT !.data = ArgAfterFilterAndSort(@, t)]
             ELSE c[k]]

\* Values of the query parameters: sources as the list String(sources)
\* .split(",").map(trim) gives (<<>> for an absent or empty parameter),
\* force as the raw string ("" for absent or empty).
Tokens == Keys \cup {"nope"}
SourcesParams == UNION {[1..n -> Tokens] : n \in 0..MaxTokens}
ForceParams == {"", "0", "true"}

\* ----------------------------------------- the sources query parameter
\* req.query.sources as text, in lexemes: a registered key, a word that is
\* no key, a comma, a blank.  <<>> is an absent or empty parameter.
Lexemes == Keys \cup {"nope", ",", " "}
RawParams == UNION {[1..n -> Lexemes] : n \in 0..MaxRaw}

\* String(sources).split(","): the pieces between the commas.
RECURSIVE Split(_)
Split(raw) ==
    IF \A i \in 1..Len(raw) : raw[i] # "," THEN <<raw>>
    ELSE LET c == CHOOSE i \in 1..Len(raw) :
                      raw[i] = "," /\ \A j \in 1..(i - 1) : raw[j] # ","
         IN  <<SubSeq(raw, 1, c - 1)>> \o Split(SubSeq(raw, c + 1, Len(raw)))

\* s.trim(): the piece without its leading and trailing blanks.
RECURSIVE Trim(_)
Trim(piece) ==
    IF piece # <<>> /\ piece[1] = " " THEN Trim(Tail(piece))
    ELSE IF piece # <<>> /\ piece[Len(piece)] = " "
         THEN Trim(SubSeq(piece, 1, Len(piece) - 1))
         ELSE piece

\* The trimmed piece as the string only.includes compares with a key: the
\* empty string, the one word it consists of, or some longer text.
PieceText(piece) ==
    IF piece = <<>> THEN ""
    ELSE IF Len(piece) = 1 THEN piece[1] ELSE "<text>"

\* const only = sources ? String(sources).split(",").map(s => s.trim()) : null
\* (null is <<>>, which split never gives).
Only(raw) ==
    IF raw = <<>> THEN <<>>
    ELSE LET pieces == Split(raw)
         IN  [i \in 1..Len(pieces) |-> PieceText(Trim(pieces[i]))]

\* ------------------------------------------------------------------- text
\* A text is a sequence of characters, each a string of one character; the
\* characters outside ASCII are written by name ("a-grave", "en-dash").
Digits == <<"0", "1", "2", "3", "4", "5", "6", "7", "8", "9">>
UpperCase == <<"A", "B", "C", "D", "E", "F", "G", "H", "I", "J", "K", "L", "M", "N", "O", "P", "Q", "R", "S", "T", "U", "V", "W", "X", "Y", "Z">>
LowerCase == <<"a", "b", "c", "d", "e", "f", "g", "h", "i", "j", "k", "l", "m", "n", "o", "p", "q", "r", "s", "t", "u", "v", "w", "x", "y", "z">>

\* The least element of a set of positions, 0 for the empty set.
FirstPos(S) == IF S = {} THEN 0 ELSE CHOOSE i \in S : \A j \in S : i <= j

\* The character classes \d, \w and \s, the letters of
\* [a-z<c-cedilla>...<u-diaeresis>\.] under the i flag, and every character
\* a text is made of (what a negated class is taken from).
Digit == {Digits[i] : i \in 1..Len(Digits)}
Letter == {UpperCase[i] : i \in 1..Len(UpperCase)}
              \cup {LowerCase[i] : i \in 1..Len(LowerCase)}
Word == Digit \cup Letter \cup {"_"}
Space == {" ", "\t", "\n"}
MonthLetter ==
    Letter \cup {"c-cedilla", "e-acute", "i-acute", "o-acute", "u-acute",
                 "n-tilde", "a-tilde", "o-tilde", "a-circumflex",
                 "e-circumflex", "o-circumflex", "u-diaeresis", "."}
AnyChar ==
    Word \cup Space \cup MonthLetter
        \cup {"a-grave", "A-grave", "a-acute", "-", ":", "/", ",", "(", ")",
              "|", "+", "en-dash", "em-dash", "minus-sign"}

ToLowerChar(c) ==
    LET i == FirstPos({j \in 1..Len(UpperCase) : UpperCase[j] = c})
    IN  IF i # 0 THEN LowerCase[i]
        ELSE IF c = "A-grave" THEN "a-grave" ELSE c

ToUpperChar(c) ==
    LET i == FirstPos({j \in 1..Len(LowerCase) : LowerCase[j] = c})
    IN  IF i # 0 THEN UpperCase[i]
        ELSE IF c = "a-grave" THEN "A-grave" ELSE c

toLowerCase(s) == [i \in 1..Len(s) |-> ToLowerChar(s[i])]

\* s[i], or "" past either end of s.
CharAt(s, i) == IF i \in 1..Len(s) THEN s[i] ELSE ""

\* s.slice(a - 1, b): the characters a..b of s that exist.
Slice(s, a, b) ==
    LET lo == IF a < 1 THEN 1 ELSE a
        hi == IF b > Len(s) THEN Len(s) ELSE b
    IN  IF lo > hi THEN <<>> ELSE SubSeq(s, lo, hi)

\* Number(digits): the value of a run of digits, 0 for the empty text (what
\* d[k] || 0 makes of an absent group).
RECURSIVE ToInt(_)
ToInt(s) ==
    IF s = <<>> THEN 0
    ELSE 10 * ToInt(Slice(s, 1, Len(s) - 1))
             + FirstPos({j \in 1..Len(Digits) : Digits[j] = s[Len(s)]}) - 1

\* String(n).padStart(2, "0") of a number, and of one or two digits.
Pad2(n) == <<Digits[((n \div 10) % 10) + 1], Digits[(n % 10) + 1]>>
padStart2(s) == IF Len(s) < 2 THEN <<"0">> \o s ELSE s

\* ---------------------------------------------------- regular expressions
\* A pattern is a sequence of steps.  Chars is a character class repeated
\* min to max times (max < 0: without limit), greedy; Lit a literal, under
\* the i flag if i; Alt the alternatives a|b|..., an optional group being
\* Alt(<<group, <<>>>>); Group a capturing group named "$1", "$2", ...;
\* WordBoundary and EndOfInput stand for \b and $.
Step(kind, set, min, max, name, alts) ==
    [kind |-> kind, set |-> set, min |-> min, max |-> max, name |-> name,
     alts |-> alts]

Chars(set, min, max) == <<Step("chars", set, min, max, "", <<>>)>>

Lit(text, i) ==
    [k \in 1..Len(text) |->
        Step("chars",
             IF i THEN {text[k], ToLowerChar(text[k]), ToUpperChar(text[k])}
             ELSE {text[k]},
             1, 1, "", <<>>)]

Alt(alts) == <<Step("alt", {}, 0, 0, "", alts)>>

Group(name, re) ==
    <<Step("open", {}, 0, 0, name, <<>>)>> \o re
        \o <<Step("close", {}, 0, 0, name, <<>>)>>

WordBoundary == <<Step("b", {}, 0, 0, "", <<>>)>>
EndOfInput == <<Step("end", {}, 0, 0, "", <<>>)>>

\* A match: where it starts and ends (end is the position after it) and the
\* positions at which its groups opened and closed.  NoMatch is null.
NoMatch == [at |-> 0, end |-> 0, marks |-> <<>>]

\* The pattern re matched at position p of s, as a backtracking matcher
\* does: each step takes the most it can for which the steps after it still
\* match.  try is what the first step takes next, the count of characters
\* of a class or the number of an alternative; -1 before anything was tried.
\* Run is the most a class can take at p: the characters of set from p on,
\* max at the most.
RECURSIVE Run(_, _, _, _)
Run(s, p, set, max) ==
    IF max = 0 \/ p > Len(s) \/ s[p] \notin set THEN 0
    ELSE 1 + Run(s, p + 1, set, max - 1)

RECURSIVE Match(_, _, _, _)
Match(re, s, p, try) ==
    LET st == Head(re)
        Taken(n, taken) ==
            IF taken # NoMatch THEN [taken EXCEPT !.at = p]
            ELSE IF n = 0 THEN NoMatch
            ELSE Match(re, s, p, n - 1)
        Take(n) ==
            IF n < st.min THEN NoMatch
            ELSE Taken(n, Match(Tail(re), s, p + n, 0 - 1))
        Chosen(k, chosen) ==
            IF chosen # NoMatch THEN chosen ELSE Match(re, s, p, k + 1)
        Choose(k) ==
            IF k > Len(st.alts) THEN NoMatch
            ELSE Chosen(k, Match(st.alts[k] \o Tail(re), s, p, 0 - 1))
        Mark(here) ==
            IF here = NoMatch THEN NoMatch
            ELSE [here EXCEPT !.marks =
                     <<[name |-> st.name, open |-> st.kind = "open",
                        at |-> p]>> \o @]
    IN  IF re = <<>> THEN [at |-> p, end |-> p, marks |-> <<>>]
        ELSE IF st.kind = "chars"
        THEN Take(IF try < 0 THEN Run(s, p, st.set, st.max) ELSE try)
        ELSE IF st.kind = "alt" THEN Choose(IF try < 0 THEN 1 ELSE try)
        ELSE IF st.kind \in {"open", "close"}
        THEN Mark(Match(Tail(re), s, p, 0 - 1))
        ELSE IF \/ st.kind = "b"
                   /\ (CharAt(s, p - 1) \in Word) # (CharAt(s, p) \in Word)
                \/ st.kind = "end" /\ p = Len(s) + 1
        THEN Match(Tail(re), s, p, 0 - 1)
        ELSE NoMatch

\* regex.exec(s) from position from on: the match at the first position
\* that has one.
RECURSIVE Search(_, _, _)
Search(re, s, from) ==
    LET Found(m) == IF m # NoMatch THEN m ELSE Search(re, s, from + 1)
    IN  IF from > Len(s) + 1 THEN NoMatch
        ELSE Found(Match(re, s, from, 0 - 1))

\* m[k] of a match m in s: the text of group name, of the whole match for
\* "$&"; <<>> for a group that took no part, and for m = null.
Cap(s, m, name) ==
    IF name = "$&" THEN Slice(s, m.at, m.end - 1)
    ELSE Slice(s,
               FirstPos({m.marks[i].at : i \in {j \in 1..Len(m.marks) :
                             m.marks[j].name = name /\ m.marks[j].open}}),
               FirstPos({m.marks[i].at : i \in {j \in 1..Len(m.marks) :
                             m.marks[j].name = name /\ ~m.marks[j].open}}) - 1)

\* The replacement text tpl for a match: its characters, "$1" and "$2"
\* standing for the groups.
RECURSIVE Expand(_, _, _)
Expand(tpl, s, m) ==
    IF tpl = <<>> THEN <<>>
    ELSE (IF Head(tpl) \in {"$1", "$2"} THEN Cap(s, m, Head(tpl))
          ELSE <<Head(tpl)>>) \o Expand(Tail(tpl), s, m)

\* s.replace(re, tpl) from position from on: the first match is replaced,
\* every match under the g flag.  No pattern of the program matches the
\* empty text.
RECURSIVE Replace(_, _, _, _, _)
Replace(re, s, from, tpl, g) ==
    LET Splice(m) ==
            IF m = NoMatch THEN Slice(s, from, Len(s))
            ELSE Slice(s, from, m.at - 1) \o Expand(tpl, s, m)
                     \o (IF g THEN Replace(re, s, m.end, tpl, g)
                         ELSE Slice(s, m.end, Len(s)))
    IN  Splice(Search(re, s, from))

\* --------------------------------------------------------------- calendar
\* Instants of the parser are seconds since 1970-01-01T00:00:00Z (the
\* milliseconds are always 000).  NaN is the time value of an Invalid Date.
NaN == 0 - 1

\* Date.UTC(y, month, d, h, mi, s): month counts from 0, and every field
\* may lie outside its range, the excess carrying over.  The days from
\* 1970-01-01 to the first of the month, then the rest.
DateUTC(y, month, d, h, mi, s) ==
    LET m == (month % 12) + 1
        yy == y + (month \div 12) - (IF m <= 2 THEN 1 ELSE 0)
        era == yy \div 400
        yoe == yy - era * 400
        doy == (153 * ((m + 9) % 12) + 2) \div 5
        doe == yoe * 365 + (yoe \div 4) - (yoe \div 100) + doy
        days == era * 146097 + doe - 719468
    IN  (days + d - 1) * 86400 + h * 3600 + mi * 60 + s

\* Date.prototype.toISOString(): YYYY-MM-DDTHH:mm:ss.000Z.
toISOString(ts) ==
    LET z == (ts \div 86400) + 719468
        rem == ts % 86400
        era == z \div 146097
        doe == z % 146097
        yoe == (doe - (doe \div 1460) + (doe \div 36524) - (doe \div 146096)) \div 365
        doy == doe - (365 * yoe + (yoe \div 4) - (yoe \div 100))
        mp == (5 * doy + 2) \div 153
        d == doy - ((153 * mp + 2) \div 5) + 1
        m == IF mp < 10 THEN mp + 3 ELSE mp - 9
        y == yoe + era * 400 + (IF m <= 2 THEN 1 ELSE 0)
    IN  Pad2(y \div 100) \o Pad2(y % 100) \o <<"-">> \o Pad2(m) \o <<"-">>
            \o Pad2(d) \o <<"T">> \o Pad2(rem \div 3600) \o <<":">>
            \o Pad2((rem % 3600) \div 60) \o <<":">> \o Pad2(rem % 60)
            \o <<".", "0", "0", "0", "Z">>

\* ------------------------------------------------------------------ dayjs
\* new Date(text) of a text dayjs's REGEX_PARSE does not take.  A date-time
\* string with Z or a zone offset, YYYY-MM-DDTHH:mm(:ss)?(Z|[+-]HH:mm),
\* denotes its instant if every field is in range; the other texts that get
\* here are no date, an Invalid Date.
NewDate(text) ==
    LET D2(name) == Group(name, Chars(Digit, 2, 2))
        Instant(matched, Y, M, D, h, mi, s, sign, zh, zm) ==
            IF /\ matched
               /\ M \in 1..12
               /\ D >= 1
               /\ D <= (IF M = 2
                        THEN (IF Y % 4 = 0 /\ (Y % 100 # 0 \/ Y % 400 = 0)
                              THEN 29 ELSE 28)
                        ELSE IF M \in {4, 6, 9, 11} THEN 30 ELSE 31)
               /\ h <= 23 /\ mi <= 59 /\ s <= 59 /\ zh <= 23 /\ zm <= 59
            THEN DateUTC(Y, M - 1, D, h, mi, s) - sign * (zh * 3600 + zm * 60)
            ELSE NaN
        Fields(m) ==
            Instant(m # NoMatch, ToInt(Cap(text, m, "$1")),
                    ToInt(Cap(text, m, "$2")), ToInt(Cap(text, m, "$3")),
                    ToInt(Cap(text, m, "$4")), ToInt(Cap(text, m, "$5")),
                    ToInt(Cap(text, m, "$6")),
                    IF Cap(text, m, "$7") = <<"-">> THEN 0 - 1 ELSE 1,
                    ToInt(Cap(text, m, "$8")), ToInt(Cap(text, m, "$9")))
    IN  Fields(Match(Group("$1", Chars(Digit, 4, 4)) \o Lit(<<"-">>, FALSE)
                         \o D2("$2") \o Lit(<<"-">>, FALSE) \o D2("$3")
                         \o Lit(<<"T">>, FALSE) \o D2("$4")
                         \o Lit(<<":">>, FALSE) \o D2("$5")
                         \o Alt(<<Lit(<<":">>, FALSE) \o D2("$6"), <<>>>>)
                         \o Alt(<<Lit(<<"Z">>, FALSE),
                                  Group("$7", Chars({"+", "-"}, 1, 1))
                                      \o D2("$8") \o Lit(<<":">>, FALSE)
                                      \o D2("$9")>>)
                         \o EndOfInput,
                     text, 1, 0 - 1))

\* dayjs.utc(text).valueOf().  parseDate matches a text that does not end in
\* Z against REGEX_PARSE,
\* /^(\d{4})[-/]?(\d{1,2})?[-/]?(\d{0,2})[Tt\s]*(\d{1,2})?:?(\d{1,2})?:?(\d{1,2})?[.:]?(\d+)?$/,
\* and hands the fields to Date.UTC: month d[2] - 1 || 0, day d[3] || 1, the
\* others d[k] || 0.  Any other text goes to new Date().
DayjsParseDate(text) ==
    LET D12(name) == Alt(<<Group(name, Chars(Digit, 1, 2)), <<>>>>)
        Fields(d, Y, M, D, date) ==
            IF ToLowerChar(CharAt(text, Len(text))) # "z" /\ d # NoMatch
            THEN DateUTC(Y, IF M = 0 THEN 0 ELSE M - 1, IF D = 0 THEN 1 ELSE D,
                         ToInt(Cap(text, d, "$4")), ToInt(Cap(text, d, "$5")),
                         ToInt(Cap(text, d, "$6")))
            ELSE date
        Exec(d) ==
            Fields(d, ToInt(Cap(text, d, "$1")), ToInt(Cap(text, d, "$2")),
                   ToInt(Cap(text, d, "$3")), NewDate(text))
    IN  Exec(Match(Group("$1", Chars(Digit, 4, 4)) \o Chars({"-", "/"}, 0, 1)
                       \o D12("$2") \o Chars({"-", "/"}, 0, 1)
                       \o Group("$3", Chars(Digit, 0, 2))
                       \o Chars({"T", "t"} \cup Space, 0, 0 - 1)
                       \o D12("$4") \o Chars({":"}, 0, 1)
                       \o D12("$5") \o Chars({":"}, 0, 1)
                       \o D12("$6") \o Chars({".", ":"}, 0, 1)
                       \o Alt(<<Group("$7", Chars(Digit, 1, 0 - 1)), <<>>>>)
                       \o EndOfInput,
                   text, 1, 0 - 1))

\* ------------------------------------------- dayjs customParseFormat
\* A format is the list of its tokens, as formattingTokens splits it: the
\* fields and the separators between them.
numericFormats == <<
    <<"DD", "/", "MM", "/", "YYYY", " ", "HH", ":", "mm">>,
    <<"DD", "/", "MM", "/", "YYYY">>,
    <<"D", "/", "M", "/", "YYYY">>,
    <<"DD", "-", "MM", "-", "YYYY", " ", "HH", ":", "mm">>,
    <<"DD", "-", "MM", "-", "YYYY">>,
    <<"DD", ".", "MM", ".", "YYYY", " ", "HH", ":", "mm">>,
    <<"DD", ".", "MM", ".", "YYYY">> >>

englishFormats == <<
    <<"D", " ", "MMMM", " ", "YYYY", " ", "HH", ":", "mm">>,
    <<"D", " ", "MMMM", " ", "YYYY">>,
    <<"MMMM", " ", "D", ", ", "YYYY", " ", "HH", ":", "mm">>,
    <<"MMMM", " ", "D", ", ", "YYYY">> >>

\* The month names of dayjs's default locale (en).
EnglishMonths == <<
    <<"J", "a", "n", "u", "a", "r", "y">>,
    <<"F", "e", "b", "r", "u", "a", "r", "y">>,
    <<"M", "a", "r", "c", "h">>,
    <<"A", "p", "r", "i", "l">>,
    <<"M", "a", "y">>,
    <<"J", "u", "n", "e">>,
    <<"J", "u", "l", "y">>,
    <<"A", "u", "g", "u", "s", "t">>,
    <<"S", "e", "p", "t", "e", "m", "b", "e", "r">>,
    <<"O", "c", "t", "o", "b", "e", "r">>,
    <<"N", "o", "v", "e", "m", "b", "e", "r">>,
    <<"D", "e", "c", "e", "m", "b", "e", "r">> >>

\* The pattern of a field: match2 /\d\d/ for DD and MM, match4 /\d{4}/ for
\* YYYY, matchWord /\d*[^-_:/,()\s\d]+/ for MMMM, match1to2 /\d\d?/ for D,
\* M, HH and mm.
Expression(field) ==
    IF field \in {"DD", "MM"} THEN Chars(Digit, 2, 2)
    ELSE IF field = "YYYY" THEN Chars(Digit, 4, 4)
    ELSE IF field = "MMMM"
    THEN Chars(Digit, 0, 0 - 1)
             \o Chars(AnyChar \ ({"-", "_", ":", "/", ",", "(", ")"}
                                     \cup Space \cup Digit), 1, 0 - 1)
    ELSE Chars(Digit, 1, 2)

\* The parser of a field stores +value in its property; the one of MMMM
\* takes months.indexOf(value) + 1 and throws when the word is no month
\* name.
Put(time, field, value) ==
    LET month == FirstPos({i \in 1..Len(EnglishMonths) : EnglishMonths[i] = value})
    IN  IF field \in {"DD", "D"} THEN [time EXCEPT !.day = ToInt(value)]
        ELSE IF field \in {"MM", "M"} THEN [time EXCEPT !.month = ToInt(value)]
        ELSE IF field = "YYYY" THEN [time EXCEPT !.year = ToInt(value)]
        ELSE IF field = "HH" THEN [time EXCEPT !.hours = ToInt(value)]
        ELSE IF field = "mm" THEN [time EXCEPT !.minutes = ToInt(value)]
        ELSE IF month = 0 THEN [time EXCEPT !.ok = FALSE]
        ELSE [time EXCEPT !.month = month]

\* The function makeParser(format) returns: a separator token only moves
\* start by its length; a field token searches its pattern in
\* input.slice(start), stores the match and removes its first occurrence
\* from input.  A field whose pattern is not found makes match[0] throw.
RECURSIVE RunParser(_, _, _, _)
RunParser(tokens, input, start, time) ==
    LET tk == Head(tokens)
        Store(value) ==
            RunParser(Tail(tokens),
                      Replace(Lit(value, FALSE), input, 1, <<>>, FALSE),
                      start, Put(time, tk, value))
        Exec(part, match) ==
            IF match = NoMatch THEN [time EXCEPT !.ok = FALSE]
            ELSE Store(Cap(part, match, "$&"))
        Field(part) == Exec(part, Search(Expression(tk), part, 1))
    IN  IF tokens = <<>> \/ ~time.ok THEN time
        ELSE IF tk \notin {"DD", "D", "MM", "M", "MMMM", "YYYY", "HH", "mm"}
        THEN RunParser(Tail(tokens), input,
                       start + (IF tk = ", " THEN 2 ELSE 1), time)
        ELSE Field(Slice(input, start + 1, Len(input)))

\* parseFormattedInput(input, format, utc = true): an exception of the
\* parser is caught and gives an Invalid Date; otherwise the fields go to
\* Date.UTC unchecked, what is absent or zero being taken from new Date(),
\* which is 4 November 2025 on the model's clock.
ParseFormattedInput(input, format) ==
    LET Date(t) ==
            LET d == IF t.day # 0 THEN t.day
                     ELSE IF t.year = 0 /\ t.month = 0 THEN 4 ELSE 1
                y == IF t.year # 0 THEN t.year ELSE 2025
                M == IF t.year # 0 /\ t.month = 0 THEN 0
                     ELSE IF t.month > 0 THEN t.month - 1 ELSE 10
            IN  IF ~t.ok THEN NaN ELSE DateUTC(y, M, d, t.hours, t.minutes, 0)
    IN  Date(RunParser(format, input, 0,
                       [ok |-> TRUE, year |-> 0, month |-> 0, day |-> 0,
                        hours |-> 0, minutes |-> 0]))

\* fixOffset reads the UTC wall clock of localTs as wall clock of the zone.
\* For that it asks Intl.DateTimeFormat for the zone's offset at the instant,
\* which throws RangeError("Invalid time value") when localTs is NaN.
FixOffset(localTs) ==
    IF localTs = NaN THEN [kind |-> "throw", ts |-> NaN]
    ELSE [kind |-> "valid", ts |-> localTs - (DEFAULT_TZ \div 1000)]

\* dayjs.tz(text, DEFAULT_TZ) and dayjs.tz(text, format, DEFAULT_TZ): the
\* text is parsed by dayjs.utc to localTs, which fixOffset moves to the zone.
DayjsTz(text) == FixOffset(DayjsParseDate(text))
DayjsTzFormat(text, format) == FixOffset(ParseFormattedInput(text, format))

\* --------------------------------------------------------- normalizations
\* (s || "").replace(/\s+/g, " ").trim()
normalizeWhitespace(s) == Trim(Replace(Chars(Space, 1, 0 - 1), s, 1, <<" ">>, TRUE))

\* The replacements parseNamedMonth and parseDateTime both make:
\* replace(/[<en-dash><em-dash><minus-sign>]/g, "-"),
\* replace(/\b<a-grave>s?\s+/i, " "), where \b before the a-grave, which is
\* no \w, holds only right after a \w character,
\* replace(/(\d{1,2})h(\d{2})/g, "$1:$2") and replace(/(\d{1,2})h\b/g, "$1:00").
DashesAndHours(s) ==
    LET dashes == Replace(Chars({"en-dash", "em-dash", "minus-sign"}, 1, 1),
                          s, 1, <<"-">>, TRUE)
        as == Replace(WordBoundary \o Lit(<<"a-grave">>, TRUE)
                          \o Chars({"s", "S"}, 0, 1) \o Chars(Space, 1, 0 - 1),
                      dashes, 1, <<" ">>, FALSE)
        hMM == Replace(Group("$1", Chars(Digit, 1, 2)) \o Lit(<<"h">>, FALSE)
                           \o Group("$2", Chars(Digit, 2, 2)),
                       as, 1, <<"$1", ":", "$2">>, TRUE)
    IN  Replace(Group("$1", Chars(Digit, 1, 2)) \o Lit(<<"h">>, FALSE)
                    \o WordBoundary,
                hMM, 1, <<"$1", ":", "0", "0">>, TRUE)

\* The normalizations of parseDateTime (lines 687-695): blanks, pipes, the
\* labels /Publicado em:?\s*/i, /Publicada em:?\s*/i and
\* /Atualizado em:?\s*/i, then dashes and hours.
Cleaned(raw) ==
    LET Label(text) == Lit(text, TRUE) \o Chars({":"}, 0, 1) \o Chars(Space, 0, 0 - 1)
        pipes == Replace(Lit(<<"|">>, FALSE), normalizeWhitespace(raw), 1, <<" ">>, TRUE)
        l1 == Replace(Label(<<"P", "u", "b", "l", "i", "c", "a", "d", "o", " ", "e", "m">>), pipes, 1, <<>>, FALSE)
        l2 == Replace(Label(<<"P", "u", "b", "l", "i", "c", "a", "d", "a", " ", "e", "m">>), l1, 1, <<>>, FALSE)
        l3 == Replace(Label(<<"A", "t", "u", "a", "l", "i", "z", "a", "d", "o", " ", "e", "m">>), l2, 1, <<>>, FALSE)
    IN  DashesAndHours(l3)

\* --------------------------------------------------------- parseNamedMonth
MONTHS_PT == <<
    [name |-> <<"j", "a", "n", "e", "i", "r", "o">>, n |-> 1],
    [name |-> <<"j", "a", "n">>, n |-> 1],
    [name |-> <<"f", "e", "v", "e", "r", "e", "i", "r", "o">>, n |-> 2],
    [name |-> <<"f", "e", "v">>, n |-> 2],
    [name |-> <<"m", "a", "r", "c-cedilla", "o">>, n |-> 3],
    [name |-> <<"m", "a", "r">>, n |-> 3],
    [name |-> <<"m", "a", "r", "c", "o">>, n |-> 3],
    [name |-> <<"a", "b", "r", "i", "l">>, n |-> 4],
    [name |-> <<"a", "b", "r">>, n |-> 4],
    [name |-> <<"m", "a", "i", "o">>, n |-> 5],
    [name |-> <<"m", "a", "i">>, n |-> 5],
    [name |-> <<"j", "u", "n", "h", "o">>, n |-> 6],
    [name |-> <<"j", "u", "n">>, n |-> 6],
    [name |-> <<"j", "u", "l", "h", "o">>, n |-> 7],
    [name |-> <<"j", "u", "l">>, n |-> 7],
    [name |-> <<"a", "g", "o", "s", "t", "o">>, n |-> 8],
    [name |-> <<"a", "g", "o">>, n |-> 8],
    [name |-> <<"s", "e", "t", "e", "m", "b", "r", "o">>, n |-> 9],
    [name |-> <<"s", "e", "t">>, n |-> 9],
    [name |-> <<"s", "e", "t", "e", "m", "b", "r", "o", ".">>, n |-> 9],
    [name |-> <<"o", "u", "t", "u", "b", "r", "o">>, n |-> 10],
    [name |-> <<"o", "u", "t">>, n |-> 10],
    [name |-> <<"n", "o", "v", "e", "m", "b", "r", "o">>, n |-> 11],
    [name |-> <<"n", "o", "v">>, n |-> 11],
    [name |-> <<"d", "e", "z", "e", "m", "b", "r", "o">>, n |-> 12],
    [name |-> <<"d", "e", "z">>, n |-> 12] >>

MONTHS_ES == <<
    [name |-> <<"e", "n", "e", "r", "o">>, n |-> 1],
    [name |-> <<"e", "n", "e">>, n |-> 1],
    [name |-> <<"f", "e", "b", "r", "e", "r", "o">>, n |-> 2],
    [name |-> <<"f", "e", "b">>, n |-> 2],
    [name |-> <<"m", "a", "r", "z", "o">>, n |-> 3],
    [name |-> <<"m", "a", "r">>, n |-> 3],
    [name |-> <<"a", "b", "r", "i", "l">>, n |-> 4],
    [name |-> <<"a", "b", "r">>, n |-> 4],
    [name |-> <<"m", "a", "y", "o">>, n |-> 5],
    [name |-> <<"m", "a", "y">>, n |-> 5],
    [name |-> <<"j", "u", "n", "i", "o">>, n |-> 6],
    [name |-> <<"j", "u", "n">>, n |-> 6],
    [name |-> <<"j", "u", "l", "i", "o">>, n |-> 7],
    [name |-> <<"j", "u", "l">>, n |-> 7],
    [name |-> <<"a", "g", "o", "s", "t", "o">>, n |-> 8],
    [name |-> <<"a", "g", "o">>, n |-> 8],
    [name |-> <<"s", "e", "p", "t", "i", "e", "m", "b", "r", "e">>, n |-> 9],
    [name |-> <<"s", "e", "p">>, n |-> 9],
    [name |-> <<"s", "e", "t", "i", "e", "m", "b", "r", "e">>, n |-> 9],
    [name |-> <<"s", "e", "t">>, n |-> 9],
    [name |-> <<"o", "c", "t", "u", "b", "r", "e">>, n |-> 10],
    [name |-> <<"o", "c", "t">>, n |-> 10],
    [name |-> <<"n", "o", "v", "i", "e", "m", "b", "r", "e">>, n |-> 11],
    [name |-> <<"n", "o", "v">>, n |-> 11],
    [name |-> <<"d", "i", "c", "i", "e", "m", "b", "r", "e">>, n |-> 12],
    [name |-> <<"d", "i", "c">>, n |-> 12] >>

\* table[monRaw], 0 for undefined.
MonthOf(table, monRaw) ==
    LET i == FirstPos({j \in 1..Len(table) : table[j].name = monRaw})
    IN  IF i = 0 THEN 0 ELSE table[i].n

\* What parseDateTime and parseNamedMonth give their caller: null
\* ("null"), an ISO string ("string": str, and the instant ts it denotes),
\* or an exception ("throw").  NotCalled stands for a call that was not made.
ParseResult(kind, ts) ==
    [kind |-> kind, ts |-> ts,
     str |-> IF kind = "string" THEN toISOString(ts) ELSE <<>>]

NotCalled == ParseResult("none", NaN)
ParseNull == ParseResult("null", NaN)

\* d.isValid() ? d.toISOString() : null, for d = dayjs.tz(text, DEFAULT_TZ);
\* the call itself throws where d would be invalid.
IsoOrNull(text) ==
    LET Result(d) ==
            IF d.kind = "throw" THEN ParseResult("throw", NaN)
            ELSE IF d.kind = "valid" THEN ParseResult("string", d.ts)
            ELSE ParseNull
    IN  Result(DayjsTz(text))

\* (?:\s+(\d{1,2}:\d{2}))?, the time after a date, as group name.
TimeGroup(name) ==
    Alt(<<Chars(Space, 1, 0 - 1)
              \o Group(name, Chars(Digit, 1, 2) \o Lit(<<":">>, FALSE)
                                 \o Chars(Digit, 2, 2)),
          <<>>>>)

\* The pattern is
\* /(\d{1,2})\s*(?:de)?\s*([a-z...\.]+)\s*(?:de)?\s*(\d{4})(?:\s+(\d{1,2}:\d{2}))?/i.
parseNamedMonth(text) ==
    LET De == Alt(<<Lit(<<"d", "e">>, TRUE), <<>>>>)
        Iso(t, m, mon) ==
            LET dd == padStart2(Cap(t, m, "$1"))
                yyyy == Cap(t, m, "$3")
                hhmm == IF Cap(t, m, "$4") = <<>> THEN <<"1", "2", ":", "0", "0">>
                        ELSE Cap(t, m, "$4")
            IN  IF mon = 0 THEN ParseNull
                ELSE IsoOrNull(yyyy \o <<"-">> \o Pad2(mon) \o <<"-">> \o dd
                                   \o <<"T">> \o hhmm \o <<":", "0", "0">>)
        Month(monRaw) ==
            IF MonthOf(MONTHS_PT, monRaw) # 0 THEN MonthOf(MONTHS_PT, monRaw)
            ELSE MonthOf(MONTHS_ES, monRaw)
        Found(t, m) ==
            IF m = NoMatch THEN ParseNull
            ELSE Iso(t, m, Month(Replace(Lit(<<".">>, FALSE) \o EndOfInput,
                                         Cap(t, m, "$2"), 1, <<>>, FALSE)))
        Named(t) ==
            Found(t, Search(Group("$1", Chars(Digit, 1, 2))
                                \o Chars(Space, 0, 0 - 1) \o De
                                \o Chars(Space, 0, 0 - 1)
                                \o Group("$2", Chars(MonthLetter, 1, 0 - 1))
                                \o Chars(Space, 0, 0 - 1) \o De
                                \o Chars(Space, 0, 0 - 1)
                                \o Group("$3", Chars(Digit, 4, 4))
                                \o TimeGroup("$4"),
                            t, 1))
    IN  IF text = <<>> THEN ParseNull
        ELSE Named(DashesAndHours(toLowerCase(text)))

\* ----------------------------------------------------------- parseDateTime
\* The last resort of parseDateTime (lines 729-739):
\* /(\d{1,2})[\/\-.](\d{1,2})[\/\-.](\d{4})(?:\s+(\d{1,2}:\d{2}))?/ is
\* searched in cleaned and its groups are put together as an ISO text.
LastResort(cleaned) ==
    LET Sep == Chars({"/", "-", "."}, 1, 1)
        Iso(dmY) ==
            LET hhmm == Cap(cleaned, dmY, "$4")
            IN  IF dmY = NoMatch THEN ParseNull
                ELSE IsoOrNull(Cap(cleaned, dmY, "$3") \o <<"-">>
                                   \o padStart2(Cap(cleaned, dmY, "$2")) \o <<"-">>
                                   \o padStart2(Cap(cleaned, dmY, "$1"))
                                   \o (IF hhmm # <<>> THEN <<"T">> \o hhmm \o <<":", "0", "0">>
                                       ELSE <<"T", "1", "2", ":", "0", "0", ":", "0", "0">>))
    IN  Iso(Search(Group("$1", Chars(Digit, 1, 2)) \o Sep
                       \o Group("$2", Chars(Digit, 1, 2)) \o Sep
                       \o Group("$3", Chars(Digit, 4, 4)) \o TimeGroup("$4"),
                   cleaned, 1))

\* for (const fmt of formats) { d = dayjs.tz(cleaned, fmt, DEFAULT_TZ);
\* if (d.isValid()) return d.toISOString() }: the result of the first format
\* that returns or throws, NotCalled when the loop runs through.
RECURSIVE TryFormats(_, _)
TryFormats(cleaned, formats) ==
    LET Result(d) ==
            IF d.kind = "throw" THEN ParseResult("throw", NaN)
            ELSE IF d.kind = "valid" THEN ParseResult("string", d.ts)
            ELSE TryFormats(cleaned, Tail(formats))
    IN  IF formats = <<>> THEN NotCalled
        ELSE Result(DayjsTzFormat(cleaned, Head(formats)))

\* raw.match(/\d{4}-\d{2}-\d{2}([Tt ]\d{2}:\d{2}(:\d{2})?([+-]\d{2}:?\d{2}|Z)?)?/),
\* the matched text, <<>> when there is none.
IsoMatch(raw) ==
    LET D2 == Chars(Digit, 2, 2)
    IN  Cap(raw,
            Search(Chars(Digit, 4, 4) \o Lit(<<"-">>, FALSE) \o D2
                       \o Lit(<<"-">>, FALSE) \o D2
                       \o Alt(<<Chars({"T", "t", " "}, 1, 1) \o D2
                                    \o Lit(<<":">>, FALSE) \o D2
                                    \o Alt(<<Lit(<<":">>, FALSE) \o D2, <<>>>>)
                                    \o Alt(<<Chars({"+", "-"}, 1, 1) \o D2
                                                 \o Chars({":"}, 0, 1) \o D2,
                                             Lit(<<"Z">>, FALSE),
                                             <<>>>>),
                                <<>>>>),
                   raw, 1),
            "$&")

\* A stage of parseDateTime returns what it found; where it found nothing
\* the function goes on with the next stage.
OrElse(found, next) == IF found.kind \in {"null", "none"} THEN next ELSE found

\* The stages of parseDateTime after the ISO match (lines 687-741): the
\* formats tried on the cleaned text, parseNamedMonth and the last resort.
FromText(cleaned) ==
    OrElse(TryFormats(cleaned, numericFormats \o englishFormats),
           OrElse(parseNamedMonth(cleaned), LastResort(cleaned)))

\* parseDateTime(raw): null for no text; the ISO match, if there is one,
\* handed to dayjs.tz; then the stages on the cleaned text.
parseDateTime(raw) ==
    LET Iso(isoMatch) == IF isoMatch = <<>> THEN ParseNull ELSE IsoOrNull(isoMatch)
    IN  IF raw = <<>> THEN ParseNull
        ELSE OrElse(Iso(IsoMatch(raw)), FromText(Cleaned(raw)))

\* ------------------------------------------- texts handed to parseDateTime
\* A text is described by what it says: the family of its shape, day and
\* month of 2025, the time of day and how it is written, and for an ISO text
\* its separator, seconds and zone.
ParseIn(fam, d, m, tod, form, sep, zone, sec, pad, label, lang) ==
    [fam |-> fam, d |-> d, m |-> m, tod |-> tod, form |-> form, sep |-> sep,
     zone |-> zone, sec |-> sec, pad |-> pad, label |-> label, lang |-> lang]

NoInput == ParseIn("empty", 0, 0, "none", "", "", "", FALSE, FALSE, FALSE, "")

\* The hour and minute of a time of day; noon for a text without one.
TimeOf(tod) ==
    IF tod = "09:30" THEN [h |-> 9, mi |-> 30]
    ELSE IF tod = "18:45" THEN [h |-> 18, mi |-> 45]
    ELSE [h |-> 12, mi |-> 0]

\* Text that holds no date.
Words == <<<<"e", "m", " ", "b", "r", "e", "v", "e">>, <<"H", "o", "j", "e">>, <<"h", "a-acute", " ", "2", " ", "h", "o", "r", "a", "s">>, <<" ", " ", " ">>>>

\* ISO texts as found in datetime attributes and meta tags, those with Z or
\* a zone offset in the form new Date() is specified for; dd/mm/yyyy texts
\* with each separator, with and without a label before; "<day> de <month>
\* de <year>" in Portuguese and Spanish; "4 November 2025" and "November 4,
\* 2025"; words; the empty text.
ParseInputs ==
    LET tods == {"09:30", "18:45"}
    IN  {ParseIn("iso", d, m, "none", "", "", "", FALSE, TRUE, FALSE, "") :
            d \in {4, 14}, m \in {11, 13}}
        \cup {ParseIn("iso", d, m, tod, "", sep, "", sec, TRUE, FALSE, "") :
            d \in {4, 14}, m \in {11, 13}, tod \in tods, sep \in {"T", " "},
            sec \in BOOLEAN}
        \cup {ParseIn("iso", d, m, tod, "", "T", zone, sec, TRUE, FALSE, "") :
            d \in {4, 14}, m \in {11, 13}, tod \in tods,
            zone \in {"Z", "-03:00", "+05:30"}, sec \in BOOLEAN}
        \cup {ParseIn("numeric", d, 11, tod, form, sep, "", FALSE, pad, label, "") :
            d \in {4, 14}, tod \in tods \cup {"none"},
            form \in {"colon", "h", "as-h"}, sep \in {"/", "-", "."},
            pad \in BOOLEAN, label \in BOOLEAN}
        \cup {ParseIn("named", d, m, tod, form, "", "", FALSE, FALSE, FALSE, lang) :
            d \in {4, 14}, m \in 1..12, tod \in tods \cup {"none"},
            form \in {"colon", "h", "as-h"}, lang \in {"pt", "es"}}
        \cup {ParseIn("english", d, m, tod, form, "", "", FALSE, FALSE, FALSE, "en") :
            d \in {4, 14}, m \in {3, 11}, tod \in tods \cup {"none"},
            form \in {"day-first", "month-first"}}
        \cup {ParseIn("words", d, 0, "none", "", "", "", FALSE, FALSE, FALSE, "") :
            d \in 1..Len(Words)}
        \cup {NoInput}

\* The text an input stands for.  The time of day is written " 18:45",
\* " 18h45" or " <a-grave>s 18h45"; a month by its full name, the first of its
\* names in the table.
TextOf(in) ==
    LET DigitsOf(n) == IF n < 10 THEN <<Digits[n + 1]>> ELSE Pad2(n)
        NameOf(table) ==
            table[FirstPos({j \in 1..Len(table) : table[j].n = in.m})].name
        day == IF in.pad THEN Pad2(in.d) ELSE DigitsOf(in.d)
        t == TimeOf(in.tod)
        hhmm == Pad2(t.h) \o <<":">> \o Pad2(t.mi)
        hMM == DigitsOf(t.h) \o <<"h">> \o Pad2(t.mi)
        time == IF in.tod = "none" THEN <<>>
                ELSE IF in.form = "h" THEN <<" ">> \o hMM
                ELSE IF in.form = "as-h" THEN <<" ", "a-grave", "s", " ">> \o hMM
                ELSE <<" ">> \o hhmm
        zone == IF in.zone = "Z" THEN <<"Z">>
                ELSE IF in.zone = "-03:00" THEN <<"-", "0", "3", ":", "0", "0">>
                ELSE IF in.zone = "+05:30" THEN <<"+", "0", "5", ":", "3", "0">>
                ELSE <<>>
    IN  IF in.fam = "iso"
        THEN <<"2", "0", "2", "5", "-">> \o Pad2(in.m) \o <<"-">> \o Pad2(in.d)
                 \o (IF in.tod = "none" THEN <<>>
                     ELSE <<in.sep>> \o hhmm
                              \o (IF in.sec THEN <<":", "0", "0">> ELSE <<>>) \o zone)
        ELSE IF in.fam = "numeric"
        THEN (IF in.label THEN <<"P", "u", "b", "l", "i", "c", "a", "d", "o", " ", "e", "m", ":", " ">> ELSE <<>>)
                 \o day \o <<in.sep>> \o Pad2(in.m) \o <<in.sep>> \o <<"2", "0", "2", "5">>
                 \o time
        ELSE IF in.fam = "named"
        THEN day \o <<" ", "d", "e", " ">>
                 \o NameOf(IF in.lang = "pt" THEN MONTHS_PT ELSE MONTHS_ES)
                 \o <<" ", "d", "e", " ", "2", "0", "2", "5">> \o time
        ELSE IF in.fam = "english"
        THEN (IF in.form = "day-first"
              THEN day \o <<" ">> \o EnglishMonths[in.m] \o <<" ", "2", "0", "2", "5">>
              ELSE EnglishMonths[in.m] \o <<" ">> \o day \o <<",", " ", "2", "0", "2", "5">>)
                 \o time
        ELSE IF in.fam = "words" THEN Words[in.d]
        ELSE <<>>

\* ---------------------------------------------------------------- adapters
\* The time texts of the pages in the model: none (no element and no
\* attribute), a datetime attribute with Z, a text dd/mm/yyyy hh:mm, and
\* words that hold no date.
PageTimes ==
    {NoInput,
     ParseIn("iso", 4, 11, "18:45", "", "T", "Z", TRUE, TRUE, FALSE, ""),
     ParseIn("numeric", 4, 11, "09:30", "colon", "/", "", FALSE, TRUE, FALSE, ""),
     ParseIn("words", 1, 0, "none", "", "", "", FALSE, FALSE, FALSE, "")}

MaxRows == 2

\* What safeFetch(url) and cheerio give an adapter for its listing: the rows
\* the selector finds, each with the text of its title link, the href, the
\* src of its image and its time text ("" for what is absent).
ListingPages ==
    LET Rows == [title : {"", "Title"}, link : {"", "/pt/story/1"},
                 img : {"", "/img.jpg"}, time : PageTimes]
    IN  UNION {[1..n -> Rows] : n \in 0..MaxRows}

\* What safeFetch(it.url) gives fetchArticleMeta: an exception (the timeout
\* aborting the request, a status that is not 2xx, a failed connection), or
\* the page with the content of its image and time meta tags.
MetaPages ==
    [kind : {"timeout", "status", "network"}, ogImage : {""}, ogTime : {NoInput}]
        \cup [kind : {"page"}, ogImage : {"", "https://cdn/og.jpg"},
              ogTime : PageTimes]

\* What parseDateTime returns for each time text of the pages.
ParsedPageTime == [x \in PageTimes |-> parseDateTime(TextOf(x))]

\* publishedAt of an item for what parseDateTime returned: the instant of
\* the ISO string on the model's clock, whose instant 0 is
\* 2025-11-01T00:00:00.000Z, in ms; Null for null.
ParsedAt(r) ==
    IF r.kind = "string" THEN (r.ts - DateUTC(2025, 10, 1, 0, 0, 0)) * 1000
    ELSE Null

\* Variant: an item without a date gets the time of the scrape.
PushedOrNow(rows, parsed) ==
    [threw |-> \E i \in 1..Len(rows) : parsed[i].kind = "throw",
     items |->
        SelectSeq([i \in 1..Len(rows) |->
                      [title |-> rows[i].title,
                       url |-> IF rows[i].link = "" THEN ""
                               ELSE "https://news.un.org/pt/story/1",
                       image |-> IF rows[i].img = "" THEN ""
                                 ELSE "https://news.un.org/img.jpg",
                       publishedAt |-> IF ParsedAt(parsed[i]) = Null THEN StartClock
                                       ELSE ParsedAt(parsed[i])]],
                  LAMBDA it : it.title # "" /\ it.url # "")]

\* The callback of .each (lines 791-807) on every row, parsed[i] being what
\* parseDateTime returned for the time text of row i: an item is pushed for
\* a row with title and link.  The callback is not inside a try, so an
\* exception of parseDateTime ends the adapter.
Pushed(rows, parsed) ==
    [threw |-> \E i \in 1..Len(rows) : parsed[i].kind = "throw",
     items |->
        SelectSeq([i \in 1..Len(rows) |->
                      [title |-> rows[i].title,
                       url |-> IF rows[i].link = "" THEN ""
                               ELSE "https://news.un.org/pt/story/1",
                       image |-> IF rows[i].img = "" THEN ""
                                 ELSE "https://news.un.org/img.jpg",
                       publishedAt |-> ParsedAt(parsed[i])]],
                  LAMBDA it : it.title # "" /\ it.url # "")]

EachRow(rows) ==
    Pushed(rows, [i \in 1..Len(rows) |-> ParsedPageTime[rows[i].time]])

\* Variant: the loop looks for an item to complete from the start of the
\* array each time.
NextMissingFromStart(items, from) ==
    LET S == {i \in 1..Len(items) :
                 items[i].image = "" \/ items[i].publishedAt = Null}
    IN  IF S = {} THEN Len(items) + 1 ELSE FirstPos(S)

\* What the .each loop gives for the listings of the model.
Scraped == {EachRow(rows) : rows \in ListingPages}

\* for (const it of items) if (!it.image || !it.publishedAt): the next item
\* from position from on that lacks its image or its date, Len(items) + 1
\* when the loop is through.
NextMissing(items, from) ==
    LET S == {i \in from..Len(items) :
                 items[i].image = "" \/ items[i].publishedAt = Null}
    IN  IF S = {} THEN Len(items) + 1 ELSE FirstPos(S)

\* Variant: what the detail page gives replaces what the listing gave.
FillFromMetaOverwrite(it, meta) ==
    [it EXCEPT !.image = IF meta.ogImage # "" THEN meta.ogImage ELSE @,
               !.publishedAt = IF meta.publishedAt # Null THEN meta.publishedAt
                               ELSE @]

\* it.image = it.image || meta.ogImage;
\* it.publishedAt = it.publishedAt || meta.publishedAt
FillFromMeta(it, meta) ==
    [it EXCEPT !.image = IF @ # "" THEN @ ELSE meta.ogImage,
               !.publishedAt = IF @ # Null THEN @ ELSE meta.publishedAt]

\* Variant: fetchArticleMeta without its try/catch.
fetchArticleMetaNoCatch(page) ==
    LET Thrown == [state |-> "rejected",
                   value |-> [ogImage |-> "", publishedAt |-> Null]]
        Meta(r) ==
            IF r.kind = "throw" THEN Thrown
            ELSE [state |-> "fulfilled",
                  value |-> [ogImage |-> page.ogImage, publishedAt |-> ParsedAt(r)]]
    IN  IF page.kind # "page" THEN Thrown
        ELSE Meta(ParsedPageTime[page.ogTime])

\* fetchArticleMeta(url) for what safeFetch gives: how its promise settles.
\* An exception of safeFetch or of parseDateTime is caught and gives
\* { ogImage: null, publishedAt: null }.
fetchArticleMeta(page) ==
    LET Caught == [state |-> "fulfilled",
                   value |-> [ogImage |-> "", publishedAt |-> Null]]
        Meta(r) ==
            IF r.kind = "throw" THEN Caught
            ELSE [state |-> "fulfilled",
                  value |-> [ogImage |-> page.ogImage, publishedAt |-> ParsedAt(r)]]
    IN  IF page.kind # "page" THEN Caught
        ELSE Meta(ParsedPageTime[page.ogTime])

\* No call of fetchArticleMeta was made.
NoMeta ==
    [in |-> [kind |-> "none", ogImage |-> "", ogTime |-> NoInput],
     out |-> [state |-> "none", value |-> [ogImage |-> "", publishedAt |-> Null]]]

InitPipe ==
    /\ now = StartClock
    /\ ticks = 0
    /\ cache = << >>
    /\ reqs = [r \in ReqIds |-> IdleRequest]

InitFs ==
    /\ fsList = <<>>
    /\ fsNow = StartClock
    /\ fsDone = FALSE
    /\ fsItems = <<>>

InitSel ==
    /\ selRaw = <<>>
    /\ selDone = FALSE
    /\ selOut = <<>>

InitPd ==
    /\ pdIn = NoInput
    /\ pdRaw = <<>>
    /\ pdOut = NotCalled
    /\ pdOut2 = NotCalled
    /\ pnOut = NotCalled

\* ---------------------------------------------------------------- safeFetch
MaxCalls == 2           \* calls of safeFetch in one behaviour
FetchStep == 15000      \* how far the clock advances at most in one step (ms)
MaxFetchClock == 45000  \* the clock stops here

\* const timeoutMs = opts.timeout ?? 20000; no caller passes opts.
TimeoutMs == 20000

CallIds == 1..MaxCalls

\* A call that was not made.
IdleCall ==
    [phase |-> "idle", timer |-> "none", startedAt |-> Null, endedAt |-> Null,
     reason |-> ""]

\* No call of safeFetch was made.
InitSf ==
    /\ sfNow = 0
    /\ sfCalls = [c \in CallIds |-> IdleCall]

\* Variant: clearTimeout(to) follows the return, so it runs only when the
\* call succeeds.
FinallyOnReturn(call, phase, reason, t) ==
    [call EXCEPT !.phase = phase, !.reason = reason, !.endedAt = t,
                 !.timer = IF @ = "armed" /\ phase = "fulfilled" THEN "cleared"
                           ELSE @]

\* The call leaves its try block, returning or throwing:
\* finally { clearTimeout(to) } cancels the timer if it has not fired.
Finally(call, phase, reason, t) ==
    [call EXCEPT !.phase = phase, !.reason = reason, !.endedAt = t,
                 !.timer = IF @ = "armed" THEN "cleared" ELSE @]

\* No adapter is running on its own.
InitAd ==
    /\ adPhase = "idle"
    /\ adItems = <<>>
    /\ adIdx = 0
    /\ adMeta = NoMeta
    /\ adOut = <<>>

\* No page is open.
InitCl ==
    /\ clMounted = FALSE
    /\ clActive = "all"
    /\ clLoading = FALSE
    /\ clError = FALSE
    /\ clData = 0
    /\ clFetches = <<>>
    /\ clClicks = 0

InitAux == InitSel /\ InitPd /\ InitAd /\ InitCl /\ InitSf

Init == InitPipe /\ InitFs /\ InitAux

\* GET /api/news arrives: the handler runs to its await (lines 1168-1174).
\* Requests are numbered in their order of arrival.
HandlerStarts(r, sources, force) ==
    /\ reqs[r].phase = "idle"
    /\ r > 1 => reqs[r - 1].phase # "idle"
    /\ LET selected == Selected(sources)
           keys == {selected[i].key : i \in 1..Len(selected)}
           tasks == [k \in Keys |->
                        IF k \notin keys THEN NoTask
                        ELSE IF Truthy(force)
                             THEN getSourceDataForce(cache, k, now)
                             ELSE getSourceData(cache, k, now)]
           rq == [reqs[r] EXCEPT !.phase = "waiting", !.sources = sources,
                                 !.force = force, !.selected = selected,
                                 !.tasks = tasks, !.calledAt = now]
       IN  /\ cache' = CacheAfterRespond(cache, rq, now)
           /\ reqs' = [reqs EXCEPT ![r] = Continue(rq, now)]
    /\ UNCHANGED <<now, ticks>>

StartRequest(r, sources, force) ==
    /\ HandlerStarts(r, sources, force)
    /\ UNCHANGED <<fsVars, auxVars>>

\* The fetcher a task is waiting for settles and the task's get resumes.
GetResumes(r, k, outcome) ==
    /\ reqs[r].tasks[k].fetch = "pending"
    /\ LET task == [reqs[r].tasks[k] EXCEPT
                       !.fetch = IF outcome.ok THEN "fulfilled" ELSE "rejected",
                       !.fetchReason = outcome.reason]
           out == ResumeGet(cache, k, task, outcome, now)
           rq == [reqs[r] EXCEPT !.tasks[k] = out.task]
       IN  /\ cache' = CacheAfterRespond(out.cache, rq, now)
           /\ reqs' = [reqs EXCEPT ![r] = Continue(rq, now)]
    /\ UNCHANGED <<now, ticks>>

FetchSettles(r, k, outcome) ==
    /\ GetResumes(r, k, outcome)
    /\ UNCHANGED <<fsVars, auxVars>>

FetchSucceeds(r, k) ==
    \E data \in Listings :
        FetchSettles(r, k, [ok |-> TRUE, data |-> data, reason |-> ""])

FetchFails(r, k) ==
    \E e \in FetchErrors :
        FetchSettles(r, k, [ok |-> FALSE, data |-> <<>>, reason |-> e])

\* Time passes: the clock stops one millisecond short of a full TTL after
\* the start, then on the full TTL, and so on.
TickStep(n) == IF n % 2 = 0 THEN CACHE_MS - 1 ELSE 1

Tick ==
    /\ ticks < MaxTicks
    /\ now' = now + TickStep(ticks)
    /\ ticks' = ticks + 1
    /\ UNCHANGED <<cache, reqs>>
    /\ UNCHANGED <<fsVars, auxVars>>

Next ==
    \/ \E r \in ReqIds, sources \in SourcesParams, force \in ForceParams :
          StartRequest(r, sources, force)
    \/ \E r \in ReqIds, k \in Keys : FetchSucceeds(r, k)
    \/ \E r \in ReqIds, k \in Keys : FetchFails(r, k)
    \/ Tick

Spec == Init /\ [][Next]_vars

\* --------------------------------------------- filterAndSort on its own
\* The window of the starting day: yesterday 00:00 to today 23:59:59.999.
Y0 == StartOfDay(StartClock) - DayMs
E0 == EndOfDay(StartOfDay(StartClock))

\* Timestamps around both ends of that window, and three hours before them.
FilterPubs ==
    {Null, StartClock - 3 * HourMs,
     Y0 - 3 * HourMs - 1, Y0 - 3 * HourMs, Y0 - 1, Y0,
     E0 - 3 * HourMs, E0 - 3 * HourMs + 1, E0, E0 + 1}

FilterListings ==
    {MkListing(f) : f \in UNION {[1..n -> FilterPubs] : n \in 0..MaxList}}

\* Instants of the call: noon, the first and the last millisecond of the
\* starting day, and the first millisecond of the next day.
FilterNows ==
    {StartClock, StartOfDay(StartClock), E0, E0 + 1}

InitFilter ==
    /\ InitPipe
    /\ fsList \in FilterListings
    /\ fsNow \in FilterNows
    /\ fsDone = FALSE
    /\ fsItems = <<>>
    /\ InitAux

\* A source task fulfilled with fsList is turned into its SourceResult.
BuildSourceResult ==
    /\ ~fsDone
    /\ fsDone' = TRUE
    /\ fsItems' = SourceResult(SOURCES[1],
                       [NoTask EXCEPT !.st = "fulfilled", !.value = fsList],
                       fsNow).items
    /\ UNCHANGED <<fsList, fsNow>>
    /\ UNCHANGED <<pipeVars, auxVars>>

NextFilter == BuildSourceResult

SpecFilter == InitFilter /\ [][NextFilter]_vars

\* ------------------------------------------ source selection on its own
InitSelect ==
    /\ InitPipe
    /\ InitFs
    /\ selRaw \in RawParams
    /\ selDone = FALSE
    /\ selOut = <<>>
    /\ InitPd
    /\ InitAd
    /\ InitCl
    /\ InitSf

\* GET /api/news?sources=selRaw with every selected source served from a
\* fresh cache entry: the handler runs through and answers.
ResolveSources ==
    /\ ~selDone
    /\ selDone' = TRUE
    /\ LET selected == Selected(Only(selRaw))
           keys == {selected[i].key : i \in 1..Len(selected)}
           rq == [IdleRequest EXCEPT
                     !.phase = "waiting", !.sources = Only(selRaw),
                     !.selected = selected, !.calledAt = now,
                     !.tasks = [k \in Keys |->
                         IF k \in keys
                         THEN [NoTask EXCEPT !.st = "fulfilled"]
                         ELSE NoTask]]
           res == Continue(rq, now).res
       IN  selOut' = [i \in 1..Len(res.sources) |-> res.sources[i].key]
    /\ UNCHANGED selRaw
    /\ UNCHANGED <<pipeVars, fsVars, sfVars, pdVars, adVars, clVars>>

NextSelect == ResolveSources

SpecSelect == InitSelect /\ [][NextSelect]_vars

\* ----------------------------------------------- parseDateTime on its own
InitParse ==
    /\ InitPipe
    /\ InitFs
    /\ InitSel
    /\ pdIn \in ParseInputs
    /\ pdRaw = TextOf(pdIn)
    /\ pdOut = NotCalled
    /\ pdOut2 = NotCalled
    /\ pnOut = NotCalled
    /\ InitAd
    /\ InitCl
    /\ InitSf

\* An adapter calls parseDateTime on the text.
Parse ==
    /\ pdOut = NotCalled
    /\ pdOut' = parseDateTime(pdRaw)
    /\ UNCHANGED <<pdIn, pdRaw, pdOut2, pnOut>>
    /\ UNCHANGED <<pipeVars, fsVars, sfVars, selVars, adVars, clVars>>

\* The ISO string a call returned is parsed again.
Reparse ==
    /\ pdOut.kind = "string"
    /\ pdOut2 = NotCalled
    /\ pdOut2' = parseDateTime(pdOut.str)
    /\ UNCHANGED <<pdIn, pdRaw, pdOut, pnOut>>
    /\ UNCHANGED <<pipeVars, fsVars, sfVars, selVars, adVars, clVars>>

\* parseNamedMonth is called on the text.
ParseNamed ==
    /\ pnOut = NotCalled
    /\ pnOut' = parseNamedMonth(pdRaw)
    /\ UNCHANGED <<pdIn, pdRaw, pdOut, pdOut2>>
    /\ UNCHANGED <<pipeVars, fsVars, sfVars, selVars, adVars, clVars>>

NextParse == Parse \/ Reparse \/ ParseNamed

SpecParse == InitParse /\ [][NextParse]_vars

\* ------------------------------------------------- an adapter on its own
\* scrapeUNNewsPT() was called and awaits safeFetch(url); the other adapters
\* have the same steps.
InitAdapter ==
    /\ InitPipe
    /\ InitFs
    /\ InitSel
    /\ InitPd
    /\ InitCl
    /\ InitSf
    /\ adPhase = "listing"
    /\ adItems = <<>>
    /\ adIdx = 0
    /\ adMeta = NoMeta
    /\ adOut = <<>>

\* safeFetch(url) throws: the adapter's promise is rejected.
ListingFails ==
    /\ adPhase = "listing"
    /\ adPhase' = "failed"
    /\ UNCHANGED <<adItems, adIdx, adMeta, adOut>>
    /\ UNCHANGED <<pipeVars, fsVars, sfVars, selVars, pdVars, clVars>>

\* safeFetch(url) returns the listing: the .each loop builds the items and
\* the for loop goes to its first item that lacks image or date.
ListingFetched ==
    /\ adPhase = "listing"
    /\ \E r \in Scraped :
          /\ adItems' = r.items
          /\ adIdx' = NextMissing(r.items, 1)
          /\ adPhase' = IF r.threw THEN "failed"
                        ELSE IF NextMissing(r.items, 1) > Len(r.items) THEN "done"
                        ELSE "meta"
    /\ UNCHANGED <<adMeta, adOut>>
    /\ UNCHANGED <<pipeVars, fsVars, sfVars, selVars, pdVars, clVars>>

\* await fetchArticleMeta(it.url) settles: a rejection would end the
\* adapter; otherwise the item is filled and the loop goes on.
MetaSettles ==
    /\ adPhase = "meta"
    /\ \E page \in MetaPages : \E meta \in {fetchArticleMeta(page)} :
          /\ adMeta' = [in |-> page, out |-> meta]
          /\ IF meta.state = "rejected"
             THEN /\ adPhase' = "failed"
                  /\ UNCHANGED <<adItems, adIdx>>
             ELSE /\ adItems' = [adItems EXCEPT ![adIdx] = FillFromMeta(@, meta.value)]
                  /\ adIdx' = NextMissing(adItems, adIdx + 1)
                  /\ adPhase' = IF NextMissing(adItems, adIdx + 1) > Len(adItems)
                                THEN "done" ELSE "meta"
    /\ UNCHANGED adOut
    /\ UNCHANGED <<pipeVars, fsVars, sfVars, selVars, pdVars, clVars>>

\* The adapter returned its items; the handler builds the SourceResult,
\* items: filterAndSort(list).map(...).
Serve ==
    /\ adPhase = "done"
    /\ adPhase' = "served"
    /\ adOut' = filterAndSort(adItems, now)
    /\ UNCHANGED <<adItems, adIdx, adMeta>>
    /\ UNCHANGED <<pipeVars, fsVars, sfVars, selVars, pdVars, clVars>>

NextAdapter == ListingFails \/ ListingFetched \/ MetaSettles \/ Serve

SpecAdapter == InitAdapter /\ [][NextAdapter]_vars

\* ------------------------------------------------------------- the client
MaxClicks == 2

\* The page is loaded, App is not mounted yet.
InitClient ==
    /\ InitPipe
    /\ InitFs
    /\ InitSel
    /\ InitPd
    /\ InitAd
    /\ InitCl
    /\ InitSf

\* load(force) up to its await: setLoading(true), setError(null),
\* fetch("/api/news" + (force ? "?force=true" : "")).
load(force) ==
    /\ clLoading' = TRUE
    /\ clError' = FALSE
    /\ clFetches' = Append(clFetches, [force |-> force, state |-> "pending"])

\* App mounts: useEffect(() => { load(false) }, []) runs once.
Mount ==
    /\ ~clMounted
    /\ clMounted' = TRUE
    /\ load(FALSE)
    /\ UNCHANGED <<clActive, clData, clClicks>>
    /\ UNCHANGED <<pipeVars, fsVars, sfVars, selVars, pdVars, adVars>>

\* A click on Atualizar: onClick={() => load(true)}.
ClickAtualizar ==
    /\ clMounted
    /\ clClicks < MaxClicks
    /\ clClicks' = clClicks + 1
    /\ load(TRUE)
    /\ UNCHANGED <<clMounted, clActive, clData>>
    /\ UNCHANGED <<pipeVars, fsVars, sfVars, selVars, pdVars, adVars>>

\* Variant: changing the tab reloads the news.
ClickTabReloads ==
    /\ clMounted
    /\ \E k \in {"all"} \cup Keys :
          /\ k = "all" \/ clData # 0
          /\ clActive' = k
    /\ load(FALSE)
    /\ UNCHANGED <<clMounted, clData, clClicks>>
    /\ UNCHANGED <<pipeVars, fsVars, sfVars, selVars, pdVars, adVars>>

\* A click on a tab of SourceTabs: onChange is setActive.  The tabs of the
\* sources exist once a response is shown.
ClickTab ==
    /\ clMounted
    /\ \E k \in {"all"} \cup Keys :
          /\ k = "all" \/ clData # 0
          /\ clActive' = k
    /\ UNCHANGED <<clMounted, clLoading, clError, clData, clFetches, clClicks>>
    /\ UNCHANGED <<pipeVars, fsVars, sfVars, selVars, pdVars, adVars>>

\* The fetch of a load settles: setData(json) for an ok response,
\* setError(...) otherwise, and setLoading(false) in either case.
LoadSettles ==
    /\ \E i \in 1..Len(clFetches) : \E ok \in BOOLEAN :
          /\ clFetches[i].state = "pending"
          /\ clFetches' = [clFetches EXCEPT ![i].state = IF ok THEN "ok" ELSE "failed"]
          /\ clData' = IF ok THEN i ELSE clData
          /\ clError' = IF ok THEN clError ELSE TRUE
    /\ clLoading' = FALSE
    /\ UNCHANGED <<clMounted, clActive, clClicks>>
    /\ UNCHANGED <<pipeVars, fsVars, sfVars, selVars, pdVars, adVars>>

NextClient == Mount \/ ClickAtualizar \/ ClickTab \/ LoadSettles

SpecClient == InitClient /\ [][NextClient]_vars

\* ------------------------------------------------------ safeFetch on its own
\* The server is up and no call of safeFetch was made: Init.
\* safeFetch(url) is called: the controller is made, the timer is set and
\* fetch(url, { signal }) is awaited.
SafeFetchCalled(c) ==
    /\ sfCalls[c].phase = "idle"
    /\ sfCalls' = [sfCalls EXCEPT ![c] =
                      [IdleCall EXCEPT !.phase = "headers", !.timer = "armed",
                                       !.startedAt = sfNow]]
    /\ UNCHANGED sfNow
    /\ UNCHANGED <<pipeVars, fsVars, selVars, pdVars, adVars, clVars>>

\* fetch resolves with the response: a status that is not 2xx is thrown as
\* an Error, otherwise res.text() is awaited.
ResponseArrives(c) ==
    /\ sfCalls[c].phase = "headers"
    /\ \E ok \in BOOLEAN :
          sfCalls' = [sfCalls EXCEPT ![c] =
                         IF ok THEN [@ EXCEPT !.phase = "body"]
                         ELSE Finally(@, "rejected", "status", sfNow)]
    /\ UNCHANGED sfNow
    /\ UNCHANGED <<pipeVars, fsVars, selVars, pdVars, adVars, clVars>>

\* res.text() resolves and safeFetch returns the text.
BodyArrives(c) ==
    /\ sfCalls[c].phase = "body"
    /\ sfCalls' = [sfCalls EXCEPT ![c] = Finally(@, "fulfilled", "", sfNow)]
    /\ UNCHANGED sfNow
    /\ UNCHANGED <<pipeVars, fsVars, selVars, pdVars, adVars, clVars>>

\* fetch or res.text() rejects: the connection failed.
NetworkFails(c) ==
    /\ sfCalls[c].phase \in {"headers", "body"}
    /\ sfCalls' = [sfCalls EXCEPT ![c] = Finally(@, "rejected", "network", sfNow)]
    /\ UNCHANGED sfNow
    /\ UNCHANGED <<pipeVars, fsVars, selVars, pdVars, adVars, clVars>>

\* The timer of a call fires, timeoutMs after it was set:
\* controller.abort(new Error("timeout")).  The fetch or the read of the
\* body under the signal rejects, and the call throws.
TimerFires(c) ==
    /\ sfCalls[c].timer = "armed"
    /\ sfNow >= sfCalls[c].startedAt + TimeoutMs
    /\ sfCalls' = [sfCalls EXCEPT ![c] =
                      IF @.phase \in {"headers", "body"}
                      THEN Finally([@ EXCEPT !.timer = "fired"],
                                   "rejected", "timeout", sfNow)
                      ELSE [@ EXCEPT !.timer = "fired"]]
    /\ UNCHANGED sfNow
    /\ UNCHANGED <<pipeVars, fsVars, selVars, pdVars, adVars, clVars>>

\* Time passes, up to the next instant at which a timer is due; a timer
\* that is due fires before the clock goes on.
TimePasses ==
    /\ sfNow < MaxFetchClock
    /\ \A c \in CallIds :
          sfCalls[c].timer = "armed" => sfNow < sfCalls[c].startedAt + TimeoutMs
    /\ LET due == {sfCalls[c].startedAt + TimeoutMs :
                      c \in {x \in CallIds : sfCalls[x].timer = "armed"}}
           next == {sfNow + FetchStep} \cup due
       IN  sfNow' = CHOOSE d \in next : \A e \in next : d <= e
    /\ UNCHANGED sfCalls
    /\ UNCHANGED <<pipeVars, fsVars, selVars, pdVars, adVars, clVars>>

NextFetch ==
    \/ \E c \in CallIds : SafeFetchCalled(c)
    \/ \E c \in CallIds : ResponseArrives(c)
    \/ \E c \in CallIds : BodyArrives(c)
    \/ \E c \in CallIds : NetworkFails(c)
    \/ \E c \in CallIds : TimerFires(c)
    \/ TimePasses

SpecFetch == Init /\ [][NextFetch]_vars

\* ------------------------------------ a request down to its network calls
\* One request, the first.  The fetcher of the first source of the registry,
\* scrapeUNNewsPT, runs step by step as in SpecAdapter; the fetchers of the
\* other sources settle in one step each.
\* The handler starts; the get of the first source, if it has to fetch,
\* calls scrapeUNNewsPT, which awaits its listing.
LiveStart(sources, force) ==
    /\ HandlerStarts(1, sources, force)
    /\ adPhase' = IF reqs'[1].tasks[SOURCES[1].key].fetch = "pending"
                  THEN "listing" ELSE adPhase
    /\ UNCHANGED <<adItems, adIdx, adMeta, adOut>>
    /\ UNCHANGED <<fsVars, selVars, pdVars, clVars, sfVars>>

\* scrapeUNNewsPT returns its items, or throws what its listing fetch or
\* parseDateTime threw, and the get of the first source resumes.
LiveAdapterReturns ==
    /\ adPhase \in {"done", "failed"}
    /\ adPhase' = "returned"
    /\ IF adPhase = "done"
       THEN GetResumes(1, SOURCES[1].key,
                       [ok |-> TRUE, data |-> adItems, reason |-> ""])
       ELSE \E e \in FetchErrors :
               GetResumes(1, SOURCES[1].key,
                          [ok |-> FALSE, data |-> <<>>, reason |-> e])
    /\ UNCHANGED <<adItems, adIdx, adMeta, adOut>>
    /\ UNCHANGED <<fsVars, selVars, pdVars, clVars, sfVars>>

LiveOtherSettles ==
    \E k \in Keys \ {SOURCES[1].key} : FetchSucceeds(1, k) \/ FetchFails(1, k)

NextLive ==
    \/ \E sources \in SourcesParams, force \in ForceParams :
          LiveStart(sources, force)
    \/ ListingFails
    \/ ListingFetched
    \/ MetaSettles
    \/ LiveAdapterReturns
    \/ LiveOtherSettles

\* Every network call completes, fails or is aborted: the listing fetch and
\* each detail fetch of the adapter, and the fetchers of the other sources,
\* which do not stay pending for ever.  A function whose last await settled
\* returns: the adapter does not stay at its return for ever.
SpecLive ==
    /\ Init
    /\ [][NextLive]_vars
    /\ WF_vars(ListingFails \/ ListingFetched)
    /\ WF_vars(MetaSettles)
    /\ []<>(adPhase \notin {"done", "failed"})
    /\ []<>(\A k \in Keys \ {SOURCES[1].key} : reqs[1].tasks[k].fetch # "pending")

\* ------------------------------------------------------------------ claims
Done == {r \in ReqIds : reqs[r].phase = "done"}
Started == {r \in ReqIds : reqs[r].phase # "idle"}

\* C1: when some source tasks of a request fail and others succeed, the
\* response holds one SourceResult per selected source, in order: a failed
\* source has an error and no items, a successful one has no error and the
\* filtered, sorted items of its own task.
C1_FailureIsolation ==
    \A r \in Done :
        LET rq == reqs[r]
            res == rq.res
        IN  /\ res.status = 200
            /\ Len(res.sources) = Len(rq.selected)
            /\ \A i \in 1..Len(rq.selected) :
                  LET task == rq.tasks[rq.selected[i].key]
                      sr == res.sources[i]
                  IN  /\ sr.key = rq.selected[i].key
                      /\ task.st \in {"fulfilled", "rejected"}
                      /\ task.st = "rejected" =>
                            sr.error # NullError /\ sr.items = <<>>
                      /\ task.st = "fulfilled" =>
                            /\ sr.error = NullError
                            /\ sr.items = filterAndSort(task.value, res.generatedAt)

\* A request answered with one failed source and one successful source that
\* has an item to show.
C1_Witness ==
    \E r \in Done :
        \E i, j \in 1..Len(reqs[r].res.sources) :
            /\ reqs[r].tasks[reqs[r].selected[i].key].st = "rejected"
            /\ reqs[r].tasks[reqs[r].selected[j].key].st = "fulfilled"
            /\ reqs[r].res.sources[j].items # <<>>

\* C10: every answered request has status 200 and a payload, however many
\* of its source fetches failed, each failure being reported as that
\* source's error; a 500 is sent only when the handler itself threw.
C10_AlwaysOk ==
    \A r \in Done :
        LET rq == reqs[r]
        IN  /\ rq.res.status \in {200, 500}
            /\ \A k \in SelectedKeys(rq) :
                  rq.tasks[k].fetch = "rejected" =>
                      /\ rq.res.status = 200
                      /\ \E i \in 1..Len(rq.res.sources) :
                            /\ rq.res.sources[i].key = k
                            /\ rq.res.sources[i].error = rq.tasks[k].fetchReason

\* A request over every source, all of whose fetches failed, was answered.
C10_Witness ==
    \E r \in Done :
        /\ Len(reqs[r].selected) = NumSources
        /\ \A k \in Keys : reqs[r].tasks[k].fetch = "rejected"

\* A step in which the handler of request r runs to its await.
Starts(r) == reqs[r].phase = "idle" /\ reqs'[r].phase # "idle"

\* A step in which the fetcher of task (r, k) settles.
Settles(r, k) ==
    reqs[r].tasks[k].fetch = "pending" /\ reqs'[r].tasks[k].fetch # "pending"

\* C2: a non-forced get of a key whose entry is younger than the TTL
\* returns the entry's data and does not invoke the fetcher; a missing
\* entry, or one whose age is the TTL or more, causes a fetch.
C2_FreshHitNoFetch ==
    [][\A r \in ReqIds :
          (Starts(r) /\ reqs'[r].force = "") =>
              \A k \in SelectedKeys(reqs'[r]) :
                  LET task == reqs'[r].tasks[k]
                      young == k \in DOMAIN cache
                                 /\ now - cache[k].at < 1000 * 60 * 60
                  IN  /\ young => /\ task.fetch = "none"
                                  /\ task.st = "fulfilled"
                                  /\ task.value = cache[k].data
                                  /\ cache' = cache
                      /\ ~young => task.fetch = "pending"]_vars

\* A non-forced request was served, without a fetch, from a non-empty entry
\* one millisecond short of the TTL.
C2_Witness ==
    \E r \in Started : \E k \in SelectedKeys(reqs[r]) :
        /\ reqs[r].force = ""
        /\ k \in DOMAIN cache
        /\ reqs[r].tasks[k].fetch = "none"
        /\ reqs[r].tasks[k].value = cache[k].data
        /\ cache[k].data # <<>>
        /\ reqs[r].calledAt - cache[k].at = CACHE_MS - 1

\* C3, as stated: any two non-forced calls for one key made less than one
\* TTL apart invoke the fetcher at most once in total, in every
\* interleaving.
C3_AtMostOneFetchAnyInterleaving ==
    \A r1, r2 \in Started : \A k \in Keys :
        ( /\ r1 # r2
          /\ reqs[r1].force = "" /\ reqs[r2].force = ""
          /\ k \in SelectedKeys(reqs[r1]) /\ k \in SelectedKeys(reqs[r2])
          /\ reqs[r2].calledAt - reqs[r1].calledAt < CACHE_MS
          /\ reqs[r1].calledAt - reqs[r2].calledAt < CACHE_MS )
        => ~(reqs[r1].tasks[k].fetch # "none" /\ reqs[r2].tasks[k].fetch # "none")

\* C3, amended: a non-forced call for a key that starts after the fetch of
\* an earlier non-forced call for the key has completed successfully, and
\* less than one TTL after that call started, does not invoke the fetcher,
\* so the two calls invoke it at most once in total.
C3_AtMostOneFetchSequential ==
    [][\A r2 \in ReqIds :
          (Starts(r2) /\ reqs'[r2].force = "") =>
              \A k \in SelectedKeys(reqs'[r2]) :
                  (\E r1 \in Started :
                      /\ reqs[r1].force = ""
                      /\ k \in SelectedKeys(reqs[r1])
                      /\ reqs[r1].tasks[k].fetch = "fulfilled"
                      /\ now - reqs[r1].calledAt < CACHE_MS)
                  => reqs'[r2].tasks[k].fetch = "none"]_vars

\* A non-forced call fetched and completed; a second non-forced call for the
\* key, started later but within the TTL, was served without a fetch.
C3_Witness ==
    \E r1, r2 \in Done : \E k \in Keys :
        /\ reqs[r1].force = "" /\ reqs[r2].force = ""
        /\ reqs[r1].tasks[k].fetch = "fulfilled"
        /\ reqs[r2].calledAt > reqs[r1].res.generatedAt
        /\ reqs[r2].calledAt - reqs[r1].calledAt < CACHE_MS
        /\ reqs[r2].tasks[k].st = "fulfilled"
        /\ reqs[r2].tasks[k].fetch = "none"

\* C4: a forced request invokes the fetcher of every selected source
\* whatever the age of its entry, and every fetch of a forced request that
\* succeeds replaces the key's entry by the fetched data and the current
\* time.
C4_ForceRefreshes ==
    [][\A r \in ReqIds :
          /\ (Starts(r) /\ reqs'[r].force # "") =>
                \A k \in SelectedKeys(reqs'[r]) :
                    reqs'[r].tasks[k].fetch = "pending"
          /\ \A k \in Keys :
                ( /\ reqs[r].force # ""
                  /\ Settles(r, k)
                  /\ reqs'[r].tasks[k].fetch = "fulfilled" )
                => /\ k \in DOMAIN cache'
                   /\ cache'[k] = [data |-> reqs'[r].tasks[k].value, at |-> now]]_vars

\* A forced request started while the key's entry was fresh (the request
\* before it had just fetched it), fetched again and replaced the entry by
\* other data.
C4_Witness ==
    \E r1, r2 \in Done : \E k \in Keys :
        /\ reqs[r2].force # ""
        /\ reqs[r1].tasks[k].fetch = "fulfilled"
        /\ reqs[r2].calledAt > reqs[r1].res.generatedAt
        /\ reqs[r2].calledAt - reqs[r1].calledAt < CACHE_MS
        /\ reqs[r2].tasks[k].fetch = "fulfilled"
        /\ reqs[r2].tasks[k].value # reqs[r1].tasks[k].value
        /\ cache[k].data = reqs[r2].tasks[k].value
        /\ cache[k].at >= reqs[r2].calledAt

\* C5: when the fetcher of a get fails, forced or not, the cache is left as
\* it was and the get rejects with the fetcher's error.
C5_FailureLeavesCache ==
    [][\A r \in ReqIds : \A k \in Keys :
          (Settles(r, k) /\ reqs'[r].tasks[k].fetch = "rejected") =>
              /\ cache' = cache
              /\ reqs'[r].tasks[k].st = "rejected"
              /\ reqs'[r].tasks[k].reason = reqs'[r].tasks[k].fetchReason
              /\ reqs'[r].tasks[k].reason # ""]_vars

\* The fetch of a request failed for a key that had an entry older than the
\* request, and the entry is still there.
C5_Witness ==
    \E r \in Started : \E k \in Keys :
        /\ reqs[r].tasks[k].st = "rejected"
        /\ reqs[r].tasks[k].fetch = "rejected"
        /\ k \in DOMAIN cache
        /\ cache[k].at < reqs[r].calledAt
        /\ cache[k].data # <<>>

\* C9, as stated: the cache is only updated by forced requests, so every
\* entry it holds was fetched by a request with force set.
C9_OnlyForceUpdatesCache ==
    \A k \in DOMAIN cache :
        \E r \in Started :
            reqs[r].force # "" /\ reqs[r].tasks[k].fetch = "fulfilled"

\* Position of the item of the list titled ti among the response items, 0
\* if it is not there.
PosInItems(ti) ==
    IF \E j \in 1..Len(fsItems) : fsItems[j].title = ti
    THEN CHOOSE j \in 1..Len(fsItems) : fsItems[j].title = ti
    ELSE 0

C7_WindowExact ==
    fsDone =>
        \A i \in 1..Len(fsList) :
            fsList[i].publishedAt # Null =>
                ( PosInItems(fsList[i].title) # 0
                  <=> /\ fsList[i].publishedAt >= StartOfDay(fsNow) - DayMs
                      /\ fsList[i].publishedAt <= StartOfDay(fsNow) + DayMs - 1 )

\* C8: the dated items of a SourceResult are ordered newest first.
C8_NewestFirst ==
    fsDone =>
        \A i, j \in 1..Len(fsItems) :
            ( /\ i < j
              /\ fsItems[i].publishedAt # Null
              /\ fsItems[j].publishedAt # Null )
            => fsItems[i].publishedAt >= fsItems[j].publishedAt

\* A list whose second item is newer than its first came out reordered.
C8_Witness ==
    /\ fsDone
    /\ Len(fsItems) >= 2
    /\ fsItems[1].title = "t2"
    /\ fsItems[2].title = "t1"
    /\ fsItems[1].publishedAt > fsItems[2].publishedAt

\* The key k is one of the comma-separated entries of the typed parameter,
\* blanks around it apart.
ListedInRaw(k) ==
    \E i \in 1..Len(selRaw) :
        /\ selRaw[i] = k
        /\ \A j \in 1..(i - 1) :
              (\A m \in j..(i - 1) : selRaw[m] # ",") => selRaw[j] = " "
        /\ \A j \in (i + 1)..Len(selRaw) :
              (\A m \in (i + 1)..j : selRaw[m] # ",") => selRaw[j] = " "

\* Position of key k in the registry.
RegistryPos(k) == CHOOSE i \in 1..Len(SOURCES) : SOURCES[i].key = k

\* C11: with no sources parameter every registered source is selected; with
\* a list, exactly the registered sources whose key is listed.  Unknown keys
\* are ignored, and the response has one SourceResult per selected source,
\* in registry order, none twice even when a key is listed twice.
C11_SelectionExact ==
    selDone =>
        /\ \A i \in 1..Len(selOut) : selOut[i] \in Keys
        /\ \A k \in Keys :
              (\E i \in 1..Len(selOut) : selOut[i] = k)
                  <=> (selRaw = <<>> \/ ListedInRaw(k))
        /\ \A i, j \in 1..Len(selOut) :
              i < j => RegistryPos(selOut[i]) < RegistryPos(selOut[j])

\* The parameter listed the second registered key twice with an unknown key
\* in between: the response has that one source, once.
C11_Witness ==
    /\ selDone
    /\ selRaw = <<SOURCES[2].key, ",", "nope", ",", SOURCES[2].key>>
    /\ selOut = <<SOURCES[2].key>>

\* C12: the response of a request is composed and sent only in a step after
\* which every selected task of the request has settled, it has one
\* SourceResult per selected source, and once sent it never changes; while
\* a task of the request is in flight there is no response.
C12_RespondsAfterAllSettled ==
    [][\A r \in ReqIds :
          /\ reqs'[r].res # reqs[r].res =>
                /\ reqs[r].res = NoResponse
                /\ \A k \in SelectedKeys(reqs'[r]) :
                      reqs'[r].tasks[k].st \in {"fulfilled", "rejected"}
                /\ Len(reqs'[r].res.sources) = Len(reqs'[r].selected)
          /\ (\E k \in SelectedKeys(reqs'[r]) : reqs'[r].tasks[k].st = "pending")
                => reqs'[r].res = NoResponse]_vars

\* A request over both sources was answered later than it arrived, after
\* both of its fetches had settled, one of them with a failure.
C12_Witness ==
    \E r \in Done :
        /\ \A k \in Keys : reqs[r].tasks[k].fetch \in {"fulfilled", "rejected"}
        /\ \E k \in Keys : reqs[r].tasks[k].fetch = "rejected"
        /\ reqs[r].res.generatedAt > reqs[r].calledAt

\* The instant a text denotes: its date and time of day (noon if it has
\* none) as Sao Paulo wall clock, or in the zone the text itself names.
DenotedInstant(in) ==
    LET zone == IF in.fam # "iso" \/ in.zone = "" THEN DEFAULT_TZ \div 1000
                ELSE IF in.zone = "-03:00" THEN 0 - 3 * 3600
                ELSE IF in.zone = "+05:30" THEN 5 * 3600 + 30 * 60
                ELSE 0
    IN  DateUTC(2025, in.m - 1, in.d, TimeOf(in.tod).h, TimeOf(in.tod).mi, 0)
            - zone

\* C13, as stated: for an ISO-8601 text with Z or a zone offset,
\* parseDateTime returns the ISO string of exactly the instant the text
\* denotes.
C13_IsoOffsetExact ==
    (pdOut # NotCalled /\ pdIn.fam = "iso" /\ pdIn.zone # "" /\ pdIn.m \in 1..12)
        => /\ pdOut.kind = "string"
           /\ pdOut.ts = DenotedInstant(pdIn)

\* C14, as stated: parsing the ISO string a successful call returned
\* succeeds and gives the same instant.
C14_RoundTrip ==
    pdOut2 # NotCalled => pdOut2.kind = "string" /\ pdOut2.ts = pdOut.ts

\* C15, as stated: for "<day> de <month name> de <year>" in Portuguese or
\* Spanish, parseDateTime returns noon of that date in America/Sao_Paulo, or
\* the time of day the text gives.
C15_NamedMonthNoon ==
    (pdOut # NotCalled /\ pdIn.fam = "named")
        => /\ pdOut.kind = "string"
           /\ pdOut.ts = DenotedInstant(pdIn)

\* C16, as stated: parseDateTime never throws, and text that holds no date
\* (words, blanks, the empty string) yields null.
C16_NeverThrows ==
    pdOut # NotCalled
        => /\ pdOut.kind \in {"string", "null"}
           /\ pdIn.fam \in {"words", "empty"} => pdOut.kind = "null"

\* What each stage of parseDateTime yields for a text, in the order of the
\* code: the instant of a valid date, NaN for a stage that fails.
StageInstants(raw) ==
    LET isoMatch == IsoMatch(raw)
        cleaned == Cleaned(raw)
        formats == numericFormats \o englishFormats
        InZone(localTs) ==
            IF localTs = NaN THEN NaN ELSE localTs - (DEFAULT_TZ \div 1000)
        Instant(r) == IF r.kind = "string" THEN r.ts ELSE NaN
    IN  <<IF isoMatch = <<>> THEN NaN ELSE InZone(DayjsParseDate(isoMatch))>>
            \o [i \in 1..Len(formats) |->
                   InZone(ParseFormattedInput(cleaned, formats[i]))]
            \o <<Instant(parseNamedMonth(cleaned)), Instant(LastResort(cleaned))>>

\* C20, as stated: parseDateTime returns the result of the first stage, in
\* the fixed order, that yields a valid date, and null only if every stage
\* fails.
C20_FirstStageWins ==
    LET stages == StageInstants(pdRaw)
        first == FirstPos({i \in 1..Len(stages) : stages[i] # NaN})
    IN  pdOut # NotCalled
            => IF pdRaw = <<>> \/ first = 0 THEN pdOut.kind = "null"
               ELSE pdOut.kind = "string" /\ pdOut.ts = stages[first]

\* C17: fetchArticleMeta never rejects; when safeFetch fails (timeout,
\* status, connection) or parseDateTime throws it resolves to image null and
\* publishedAt null, and the adapter that called it does not fail.
C17_MetaNeverRejects ==
    adMeta # NoMeta
        => /\ adMeta.out.state = "fulfilled"
           /\ (\/ adMeta.in.kind # "page"
               \/ parseDateTime(TextOf(adMeta.in.ogTime)).kind = "throw")
                  => adMeta.out.value = [ogImage |-> "", publishedAt |-> Null]
           /\ adPhase # "failed"

\* The detail page of the last item timed out and the adapter returned.
C17_Witness == adMeta.in.kind = "timeout" /\ adPhase = "done"

\* C18: every item of a SourceResult has a title and a url, and its
\* publishedAt is a value parseDateTime returned for a time text of the
\* listing or of the detail page.
C18_ItemsFromParser ==
    \A i \in 1..Len(adOut) :
        /\ adOut[i].title # ""
        /\ adOut[i].url # ""
        /\ adOut[i].publishedAt # Null
              => adOut[i].publishedAt
                     \in {ParsedAt(parseDateTime(TextOf(x))) : x \in PageTimes}

\* Two items are served, one of them dated by the metadata fallback.
C18_Witness ==
    /\ Len(adOut) = 2
    /\ adMeta.out.value.publishedAt # Null
    /\ \E i \in 1..Len(adOut) : adOut[i].publishedAt = adMeta.out.value.publishedAt

\* C19: the client issues one request without force when App mounts and one
\* with force=true for each click on Atualizar, and no other request.
C19_RequestsOnLoadAndClick ==
    [i \in 1..Len(clFetches) |-> clFetches[i].force]
        = (IF clMounted THEN <<FALSE>> ELSE <<>>) \o [i \in 1..clClicks |-> TRUE]

\* Atualizar was clicked and a source tab was chosen.
C19_Witness == clClicks >= 1 /\ clActive # "all"

\* C22: within one request the fetcher of a selected source is invoked at
\* most once: it is invoked only in the step in which the handler starts,
\* a fetcher that settled is not invoked again by that request, failed or
\* not, and a request never starts twice.
C22_NoRetryWithinRequest ==
    [][\A r \in ReqIds :
          /\ reqs[r].phase # "idle" => reqs'[r].phase # "idle"
          /\ \A k \in Keys :
                LET a == reqs[r].tasks[k]
                    b == reqs'[r].tasks[k]
                IN  /\ b.fetch = "pending" =>
                          a = b \/ (Starts(r) /\ a.fetch = "none")
                    /\ a.fetch \in {"fulfilled", "rejected"} => b = a]_vars

\* A request was answered with a failed fetch of a key, and a later request
\* invoked the fetcher of that key again.
C22_Witness ==
    \E r1 \in Done : \E r2 \in Started : \E k \in Keys :
        /\ reqs[r1].tasks[k].fetch = "rejected"
        /\ reqs[r2].calledAt >= reqs[r1].res.generatedAt
        /\ r2 > r1
        /\ reqs[r2].tasks[k].fetch # "none"

\* C23: when two requests refresh the same key at the same time, each
\* refresh that succeeds writes the key's entry as a whole, the data it
\* fetched with the time of the write, whatever entry another refresh left
\* there: the entry is that of the refresh that wrote last.
C23_LastWriterWins ==
    [][\A r \in ReqIds : \A k \in Keys :
          ( /\ Settles(r, k)
            /\ reqs'[r].tasks[k].fetch = "fulfilled"
            /\ \E r2 \in ReqIds \ {r} : reqs[r2].tasks[k].fetch # "none" )
          => /\ k \in DOMAIN cache'
             /\ cache'[k] = [data |-> reqs'[r].tasks[k].value, at |-> now]]_vars

\* Two requests fetched one key while both fetches were in flight, both
\* succeeded with different data at different times, and the entry is the
\* pair of one of them.
C23_Witness ==
    \E r1, r2 \in ReqIds : \E k \in Keys :
        /\ r1 # r2
        /\ reqs[r1].tasks[k].fetch = "fulfilled"
        /\ reqs[r2].tasks[k].fetch = "fulfilled"
        /\ reqs[r1].phase = "done" /\ reqs[r2].phase = "done"
        /\ reqs[r1].sources = <<k>> /\ reqs[r2].sources = <<k>>
        /\ reqs[r2].calledAt < reqs[r1].res.generatedAt
        /\ reqs[r1].calledAt < reqs[r2].res.generatedAt
        /\ reqs[r1].res.generatedAt < reqs[r2].res.generatedAt
        /\ reqs[r1].tasks[k].value # reqs[r2].tasks[k].value
        /\ cache[k] = [data |-> reqs[r2].tasks[k].value,
                       at |-> reqs[r2].res.generatedAt]

\* C24: the keys of the cache are independent.  A step in which the fetch
\* of one key settles leaves the entry of every other key as it was, and a
\* get of a key is not held up by fetches of other keys: a non-forced get of
\* a fresh key is fulfilled in the step that starts it, and a task is
\* pending only while its own fetcher is.
C24_KeysIndependent ==
    [][\A r \in ReqIds : \A k \in Keys :
          /\ Settles(r, k) =>
                \A k2 \in Keys \ {k} :
                    /\ k2 \in DOMAIN cache' <=> k2 \in DOMAIN cache
                    /\ k2 \in DOMAIN cache => cache'[k2] = cache[k2]
          /\ ( /\ Starts(r)
               /\ reqs'[r].force = ""
               /\ k \in SelectedKeys(reqs'[r])
               /\ k \in DOMAIN cache
               /\ now - cache[k].at < CACHE_MS )
             => reqs'[r].tasks[k].st = "fulfilled"
          /\ reqs'[r].tasks[k].st = "pending"
                => reqs'[r].tasks[k].fetch = "pending"]_vars

\* While the fetch of one key was in flight in a request, another request
\* was served the other key from its entry, and its response was sent.
C24_Witness ==
    \E r1, r2 \in ReqIds : \E k1, k2 \in Keys :
        /\ r1 # r2 /\ k1 # k2
        /\ reqs[r1].tasks[k1].fetch = "pending"
        /\ reqs[r2].phase = "done"
        /\ reqs[r2].calledAt >= reqs[r1].calledAt
        /\ reqs[r2].tasks[k2].fetch = "none"
        /\ reqs[r2].tasks[k2].st = "fulfilled"
        /\ k2 \in DOMAIN cache

\* C27: when the fetcher of a source fails in a request, the SourceResult of
\* that source has the error string and no items, also when the cache holds
\* an entry for the key.
C27_FailedFetchNoStaleData ==
    \A r \in Done :
        \A i \in 1..Len(reqs[r].selected) :
            reqs[r].tasks[reqs[r].selected[i].key].fetch = "rejected"
                => /\ reqs[r].res.status = 200
                   /\ reqs[r].res.sources[i].key = reqs[r].selected[i].key
                   /\ reqs[r].res.sources[i].items = <<>>
                   /\ reqs[r].res.sources[i].error
                         = reqs[r].tasks[reqs[r].selected[i].key].fetchReason

\* The fetch of a request failed for a key whose entry, older than the
\* request, holds an item of today; the response has the error and no item.
C27_Witness ==
    \E r \in Done : \E i \in 1..Len(reqs[r].selected) :
        LET k == reqs[r].selected[i].key
        IN  /\ reqs[r].tasks[k].fetch = "rejected"
            /\ k \in DOMAIN cache
            /\ cache[k].at < reqs[r].calledAt
            /\ filterAndSort(cache[k].data, reqs[r].res.generatedAt) # <<>>
            /\ reqs[r].res.sources[i].items = <<>>
            /\ reqs[r].res.sources[i].error # NullError

\* C28: a request with a sources parameter has tasks only for the registered
\* keys the parameter lists; the entry of every other key is left as it
\* was by every step of the request, forced or not; and the cache holds
\* registered keys only.  The entry of a key changes only in a step in which
\* the fetcher of a request that selected the key settles.
C28_OnlySelectedKeysTouched ==
    [][/\ DOMAIN cache' \subseteq Keys
       /\ \A r \in ReqIds : \A k \in Keys :
             reqs'[r].tasks[k] # NoTask
                 => \/ reqs'[r].sources = <<>>
                    \/ \E i \in 1..Len(reqs'[r].sources) : reqs'[r].sources[i] = k
       /\ \A k \in Keys :
             (k \in DOMAIN cache' /\ (k \notin DOMAIN cache \/ cache'[k] # cache[k]))
                 => \E r \in ReqIds :
                       /\ Settles(r, k)
                       /\ k \in SelectedKeys(reqs[r])
                       /\ \/ reqs[r].sources = <<>>
                          \/ \E i \in 1..Len(reqs[r].sources) : reqs[r].sources[i] = k
       /\ \A k \in DOMAIN cache : k \in DOMAIN cache']_vars

\* A forced request for one key was answered while the entry of the other
\* key, written before the request, is still the one it was.
C28_Witness ==
    \E r \in Done : \E k, k2 \in Keys :
        /\ k # k2
        /\ reqs[r].force # ""
        /\ reqs[r].sources = <<k>>
        /\ reqs[r].tasks[k].fetch = "fulfilled"
        /\ reqs[r].tasks[k2] = NoTask
        /\ k2 \in DOMAIN cache
        /\ cache[k2].at < reqs[r].calledAt

\* Position in the list handed to filterAndSort of the item titled ti.
PosInList(ti) == CHOOSE p \in 1..Len(fsList) : fsList[p].title = ti

\* C25: items of a SourceResult with the same publishedAt are in the order
\* they had in the adapter's list.
C25_StableTies ==
    fsDone =>
        \A i, j \in 1..Len(fsItems) :
            (i < j /\ fsItems[i].publishedAt = fsItems[j].publishedAt)
                => PosInList(fsItems[i].title) < PosInList(fsItems[j].title)

\* Two items of the same age were kept, and a newer item listed after them
\* was moved before them.
C25_Witness ==
    /\ fsDone
    /\ \E i, j, m \in 1..Len(fsItems) :
          /\ i < j
          /\ fsItems[i].publishedAt = fsItems[j].publishedAt
          /\ m < i
          /\ PosInList(fsItems[m].title) > PosInList(fsItems[j].title)

\* C26: fetchArticleMeta is called for an item only if the item has no
\* image or no date after the listing was read; what it returns fills only
\* what is missing, an image or a date the listing gave stays, the items
\* before and after stay as they are, and the order of the items stays.
C26_FallbackFillsOnlyMissing ==
    [][(adPhase = "meta" /\ adIdx' # adIdx) =>
          /\ adIdx \in 1..Len(adItems)
          /\ adItems[adIdx].image = "" \/ adItems[adIdx].publishedAt = Null
          /\ Len(adItems') = Len(adItems)
          /\ \A i \in 1..Len(adItems) :
                /\ adItems'[i].title = adItems[i].title
                /\ adItems'[i].url = adItems[i].url
                /\ adItems[i].image # "" => adItems'[i].image = adItems[i].image
                /\ adItems[i].publishedAt # Null
                      => adItems'[i].publishedAt = adItems[i].publishedAt
                /\ i # adIdx => adItems'[i] = adItems[i]
          /\ adItems[adIdx].image = ""
                => adItems'[adIdx].image = adMeta'.out.value.ogImage
          /\ adItems[adIdx].publishedAt = Null
                => adItems'[adIdx].publishedAt = adMeta'.out.value.publishedAt]_vars

\* The only item had the image of the listing and no date; the detail page
\* gave an image and a date, and the item has the listing's image and the
\* page's date.
C26_Witness ==
    /\ Len(adItems) = 1
    /\ adMeta.out.value.ogImage = "https://cdn/og.jpg"
    /\ adMeta.out.value.publishedAt # Null
    /\ adItems[1].image = "https://news.un.org/img.jpg"
    /\ adItems[1].publishedAt = adMeta.out.value.publishedAt

CallsInTime(calls, t) ==
    \A c \in CallIds :
        /\ calls[c].phase \in {"headers", "body"}
              => /\ calls[c].timer = "armed"
                 /\ t - calls[c].startedAt <= TimeoutMs
        /\ calls[c].phase \in {"fulfilled", "rejected"}
              => /\ calls[c].timer \in {"cleared", "fired"}
                 /\ calls[c].endedAt - calls[c].startedAt <= TimeoutMs
        /\ calls[c].reason = "timeout"
              <=> /\ calls[c].phase = "rejected"
                  /\ calls[c].timer = "fired"
                  /\ calls[c].endedAt - calls[c].startedAt = TimeoutMs

\* C21: a call of safeFetch that has not ended 20000 ms after it began is
\* aborted then and throws; no call is in flight longer.  The abort ends
\* that call only, the other calls are as they were.  When a call has
\* ended, by return or by throw, its timer is not pending any more.
C21_TimeoutPerCall ==
    [][/\ CallsInTime(sfCalls', sfNow')
       /\ \A c \in CallIds :
             (sfCalls[c].timer = "armed" /\ sfCalls'[c].timer = "fired")
                => /\ sfCalls'[c].phase = "rejected"
                   /\ \A c2 \in CallIds \ {c} : sfCalls'[c2] = sfCalls[c2]]_vars

\* One call was aborted by its timer; another call, in flight at that
\* time, returned later, and its timer was cleared.
C21_Witness ==
    \E c, c2 \in CallIds :
        /\ sfCalls[c].reason = "timeout"
        /\ sfCalls[c2].phase = "fulfilled"
        /\ sfCalls[c2].timer = "cleared"
        /\ sfCalls[c2].startedAt < sfCalls[c].endedAt
        /\ sfCalls[c2].endedAt > sfCalls[c].endedAt

\* C30: a request that was received is answered: the fallback pass of the
\* adapter comes to its end, every task of the request settles and the
\* handler sends a response, with status 200 or 500, and it sends no other:
\* the request stays as it is once it is answered.
C30_EveryRequestAnswered ==
    /\ (reqs[1].phase = "waiting") ~> (reqs[1].phase = "done")
    /\ [][reqs[1].phase = "done"
            => reqs'[1] = reqs[1] /\ reqs[1].res.status \in {200, 500}]_vars

\* The request over every source was answered after the adapter had made
\* its fallback pass over two items.
C30_Witness ==
    /\ reqs[1].phase = "done"
    /\ Len(reqs[1].selected) = NumSources
    /\ adPhase = "returned"
    /\ Len(adItems) = 2
    /\ adIdx = 3
    /\ adMeta # NoMeta
    /\ reqs[1].tasks[SOURCES[1].key].value = adItems

====
